---- MODULE Spec2Model ----
(***************************************************************************)
(* Online feature retrieval of feast.FeatureStore                          *)
(* (sdk/python/feast/feature_store.py): get_online_features and the        *)
(* helpers it calls, as a state machine with one action per pipeline step, *)
(* and apply, with one action per call it makes on the registry and the    *)
(* provider; materialize and materialize_incremental, with one action per  *)
(* call of the loop over the views; refresh_registry called by concurrent  *)
(* threads, with one action per step of a thread.                          *)
(*                                                                         *)
(* Strings are sequences of tokens, so that split(":"), replace(":","__"), *)
(* rpartition("__") and endswith() are computed as Python computes them.   *)
(* Python dicts are association lists (sequences of <<key, value>> pairs)  *)
(* in insertion order.  Row indices are 0-based as in the code; TLA+       *)
(* sequences are 1-based, so row r of the code is element r+1.             *)
(***************************************************************************)
EXTENDS Integers, Sequences, FiniteSets, TLC

(***************************************************************************)
(* Bounds of the model                                                     *)
(***************************************************************************)
MaxRows == 3
MaxRefs == 2
MaxObjects == 2

(***************************************************************************)
(* Strings                                                                 *)
(***************************************************************************)
COLON == ":"
DUNDER == "__"

Name(s) == <<s>>

Range(s) == {s[i] : i \in 1..Len(s)}

SeqsUpTo(S, n) == UNION {[1..k -> S] : k \in 0..n}

\* str.split(":") : the pieces between the colons
RECURSIVE Split(_)
Split(s) ==
    IF \A i \in 1..Len(s) : s[i] # COLON
    THEN <<s>>
    ELSE LET i == CHOOSE j \in 1..Len(s) :
                      s[j] = COLON /\ \A k \in 1..(j - 1) : s[k] # COLON
         IN  <<SubSeq(s, 1, i - 1)>> \o Split(SubSeq(s, i + 1, Len(s)))

\* str.replace(":", "__")
Replace(s) == [i \in 1..Len(s) |-> IF s[i] = COLON THEN DUNDER ELSE s[i]]

\* str.rpartition("__")[-1] : what follows the last "__", the whole string
\* when there is none
RPartitionLast(s) ==
    IF \A i \in 1..Len(s) : s[i] # DUNDER
    THEN s
    ELSE LET i == CHOOSE j \in 1..Len(s) :
                      s[j] = DUNDER /\ \A k \in (j + 1)..Len(s) : s[k] # DUNDER
         IN  SubSeq(s, i + 1, Len(s))

\* str.endswith(suffix)
EndsWith(s, suffix) ==
    /\ Len(suffix) <= Len(s)
    /\ SubSeq(s, Len(s) - Len(suffix) + 1, Len(s)) = suffix

\* f"{view}:{feature}"
Ref(view, feat) == view \o <<COLON>> \o feat

\* f"{view}__{feature}"
Qualified(view, feat) == view \o <<DUNDER>> \o feat

(***************************************************************************)
(* Python dicts and lists                                                  *)
(***************************************************************************)
DictKeys(d) == [i \in 1..Len(d) |-> d[i][1]]

DictHas(d, k) == \E i \in 1..Len(d) : d[i][1] = k

DictGet(d, k) == d[CHOOSE i \in 1..Len(d) : d[i][1] = k][2]

\* d[k] = v : an existing key keeps its position
DictSet(d, k, v) ==
    IF DictHas(d, k)
    THEN [i \in 1..Len(d) |-> IF d[i][1] = k THEN <<k, v>> ELSE d[i]]
    ELSE Append(d, <<k, v>>)

\* d.get(k, default)
DictGetOr(d, k, default) == IF DictHas(d, k) THEN DictGet(d, k) ELSE default

\* the elements of s that satisfy keep, in order
RECURSIVE SelectIdx(_, _)
SelectIdx(s, keep) ==
    IF Len(s) = 0 THEN <<>>
    ELSE SelectIdx(SubSeq(s, 1, Len(s) - 1), keep)
         \o (IF Len(s) \in keep THEN <<s[Len(s)]>> ELSE <<>>)

\* the elements of s in order, each kept at its first occurrence
\* (the key order of Counter(s) and of a defaultdict filled from s)
RECURSIVE Distinct(_)
Distinct(s) ==
    IF Len(s) = 0 THEN <<>>
    ELSE LET r == Distinct(SubSeq(s, 1, Len(s) - 1))
         IN  IF s[Len(s)] \in Range(r) THEN r ELSE Append(r, s[Len(s)])

Count(s, x) == Cardinality({i \in 1..Len(s) : s[i] = x})

RECURSIVE Flatten(_)
Flatten(ss) == IF Len(ss) = 0 THEN <<>> ELSE ss[1] \o Flatten(Tail(ss))

\* the orders in which the elements of a Python set can be listed
Orderings(S) ==
    {s \in [1..Cardinality(S) -> S] : \A x \in S : \E i \in 1..Cardinality(S) : s[i] = x}

(***************************************************************************)
(* Protobuf values, statuses, timestamps                                   *)
(***************************************************************************)
INT64_VAL == "int64_val"
INT32_VAL == "int32_val"
STRING_VAL == "string_val"
DOUBLE_VAL == "double_val"
UNKNOWN == "unknown"

Val(kind, v) == [kind |-> kind, val |-> v]

\* Value() : no field of the oneof is set
null_value == [kind |-> "null", val |-> 0]

PRESENT == "PRESENT"
NOT_FOUND == "NOT_FOUND"

None == "None"

\* the empty string, which Python's "or" treats as absent
NoName == <<>>

(***************************************************************************)
(* The registry the store was constructed with                             *)
(***************************************************************************)
DUMMY_ENTITY_NAME == <<DUNDER, "dummy">>
DUMMY_ENTITY_ID == <<DUNDER, "dummy_id">>
DUMMY_ENTITY_VAL == 0

Entity(name, join_key, value_type) ==
    [name |-> name, join_key |-> join_key, value_type |-> value_type]

DUMMY_ENTITY == Entity(DUMMY_ENTITY_NAME, DUMMY_ENTITY_ID, STRING_VAL)

driver == Entity(Name("driver"), Name("driver_id"), INT64_VAL)

amount == Name("amount")
rate == Name("rate")
avg_rate == <<"avg", DUNDER, "rate">>
pct == Name("pct")
flag == Name("flag")
req == Name("req")
share == Name("share")

Projection(name, feats) ==
    [name |-> name, name_alias |-> NoName, features |-> feats, join_key_map |-> <<>>]

\* FeatureViewProjection.name_to_use
name_to_use(projection) ==
    IF projection.name_alias # NoName THEN projection.name_alias ELSE projection.name

\* a standard table, keyed by one entity
fvA ==
    [name |-> Name("fvA"), entities |-> <<driver.name>>,
     entity_columns |-> << <<driver.join_key, INT64_VAL>> >>,
     projection |-> Projection(Name("fvA"), <<amount, rate>>)]

\* a standard table without entities, keyed by the placeholder entity
fvB ==
    [name |-> Name("fvB"), entities |-> <<DUMMY_ENTITY_NAME>>,
     entity_columns |-> <<>>,
     projection |-> Projection(Name("fvB"), <<amount, avg_rate>>)]

\* a computed table over fvA and one request field, with two features
od ==
    [name |-> Name("od"),
     source_feature_view_projections |-> <<fvA.projection>>,
     request_data_schema |-> <<req>>,
     projection |-> Projection(Name("od"), <<pct, share>>)]

\* a request table
rfv ==
    [name |-> Name("rfv"), projection |-> Projection(Name("rfv"), <<flag>>)]

\* a request table over the request field that the computed table takes
rqv ==
    [name |-> Name("rqv"), projection |-> Projection(Name("rqv"), <<req>>)]

\* Registry.list_entities
registry_entities == <<driver, DUMMY_ENTITY>>

\* Registry.list_feature_views and list_stream_feature_views
registry_feature_views == <<fvA, fvB>>

\* Registry.list_request_feature_views
registry_request_feature_views == <<rfv, rqv>>

\* Registry.list_on_demand_feature_views
registry_on_demand_feature_views == <<od>>

\* the features argument when it is a list of references
FeatureList(refs) ==
    [service |-> FALSE, refs |-> refs, name |-> NoName, feature_view_projections |-> <<>>]

\* the features argument when it is a FeatureService
FeatureService(name, projections) ==
    [service |-> TRUE, refs |-> <<>>, name |-> name, feature_view_projections |-> projections]

origin_id == Name("origin_id")

\* fvA.with_join_key_map({"driver_id": "origin_id"})[["amount"]]
fvA_by_origin ==
    [name |-> fvA.name, name_alias |-> NoName, features |-> <<amount>>,
     join_key_map |-> << <<driver.join_key, origin_id>> >>]

\* a service over fvA with the join key aliased
origin_service == FeatureService(Name("origin_service"), <<fvA_by_origin>>)

\* a service over a computed table and a standard table
mixed_service ==
    FeatureService(Name("mixed_service"),
                   <<Projection(od.name, <<pct>>), Projection(fvB.name, <<avg_rate>>)>>)

\* a service one of whose tables is no longer in the registry
stale_service ==
    FeatureService(Name("stale_service"),
                   <<Projection(fvB.name, <<amount>>), Projection(Name("zz"), <<amount>>)>>)

\* Registry.list_feature_services
registry_feature_services == <<origin_service, mixed_service, stale_service>>

\* FeatureStore.get_feature_service
get_feature_service(name) ==
    registry_feature_services[CHOOSE i \in 1..Len(registry_feature_services) :
                                  registry_feature_services[i].name = name]

\* BaseFeatureView.with_projection
with_projection(view, projection) == [view EXCEPT !.projection = projection]

\* Registry.get_entity
get_entity(entity_name) ==
    registry_entities[CHOOSE i \in 1..Len(registry_entities) :
                          registry_entities[i].name = entity_name]

\* FeatureViewProjection.get_feature finds the feature
has_feature(projection, feat_name) == feat_name \in Range(projection.features)

(***************************************************************************)
(* Resolution and validation                                               *)
(***************************************************************************)
Ok(v) == [err |-> None, val |-> v]
Raise(e) == [err |-> e, val |-> <<>>]

\* _get_features taking a list of references as it is
_get_features_of_any_list(_features) ==
    IF ~_features.service
    THEN Ok(_features.refs)
    ELSE LET projections == get_feature_service(_features.name).feature_view_projections
         IN  Ok(Flatten([p \in 1..Len(projections) |->
                    [f \in 1..Len(projections[p].features) |->
                        Ref(name_to_use(projections[p]), projections[p].features[f])]]))

\* FeatureStore._get_features: the references of a list or of a service
_get_features(_features) ==
    IF ~_features.service
    THEN IF Len(_features.refs) = 0 THEN Raise("ValueError") ELSE Ok(_features.refs)
    ELSE LET projections == get_feature_service(_features.name).feature_view_projections
         IN  Ok(Flatten([p \in 1..Len(projections) |->
                    [f \in 1..Len(projections[p].features) |->
                        Ref(name_to_use(projections[p]), projections[p].features[f])]]))

\* name in {fv.name: fv for fv in views}
InRegistry(views, name) == \E i \in 1..Len(views) : views[i].name = name

\* {fv.name: fv for fv in views}[name] : the last view of that name
RegistryGet(views, name) ==
    views[CHOOSE i \in 1..Len(views) :
              /\ views[i].name = name
              /\ \A j \in (i + 1)..Len(views) : views[j].name # name]

\* lines 2189-2192: the source tables of a computed table of the service,
\* each added unless an equal view is already listed
RECURSIVE add_source_views(_, _, _)
add_source_views(fvs_to_use, projections, n) ==
    IF n = 0 THEN fvs_to_use
    ELSE LET prev == add_source_views(fvs_to_use, projections, n - 1)
             fv == with_projection(RegistryGet(registry_feature_views, projections[n].name),
                                   projections[n])
         IN  IF fv \in Range(prev) THEN prev ELSE Append(prev, fv)

\* lines 2172-2199: the views of the first n projections of a service
RECURSIVE service_views(_, _)
service_views(projections, n) ==
    IF n = 0 THEN Ok(<< <<>>, <<>>, <<>> >>)
    ELSE LET prev == service_views(projections, n - 1)
             projection == projections[n]
             fv_name == projection.name
         IN  IF prev.err # None THEN prev
             ELSE IF InRegistry(registry_feature_views, fv_name)
             THEN Ok(<<Append(prev.val[1],
                              with_projection(RegistryGet(registry_feature_views, fv_name),
                                              projection)),
                       prev.val[2], prev.val[3]>>)
             ELSE IF InRegistry(registry_request_feature_views, fv_name)
             THEN Ok(<<prev.val[1],
                       Append(prev.val[2],
                              with_projection(
                                  RegistryGet(registry_request_feature_views, fv_name),
                                  projection)),
                       prev.val[3]>>)
             ELSE IF InRegistry(registry_on_demand_feature_views, fv_name)
             THEN LET odfv == with_projection(
                                  RegistryGet(registry_on_demand_feature_views, fv_name),
                                  projection)
                  IN  Ok(<<add_source_views(prev.val[1], odfv.source_feature_view_projections,
                                            Len(odfv.source_feature_view_projections)),
                           prev.val[2], Append(prev.val[3], odfv)>>)
             ELSE Raise("ValueError")

\* FeatureStore._get_feature_views_to_use: for a list of references every
\* view of the registry, by kind; for a service the views of its projections
_get_feature_views_to_use(_features) ==
    IF _features.service
    THEN service_views(_features.feature_view_projections,
                       Len(_features.feature_view_projections))
    ELSE Ok(<<registry_feature_views, registry_request_feature_views,
              registry_on_demand_feature_views>>)

\* the first loop of _get_entity_maps: every entity of the registry
RECURSIVE entity_map_of_entities(_)
entity_map_of_entities(entities) ==
    IF Len(entities) = 0 THEN <<>>
    ELSE DictSet(entity_map_of_entities(SubSeq(entities, 1, Len(entities) - 1)),
                 entities[Len(entities)].name, entities[Len(entities)].join_key)

\* the inner loop of _get_entity_maps over the entities of one view, with
\* the view's projection aliases applied
RECURSIVE entity_map_of_view(_, _, _)
entity_map_of_view(m, feature_view, n) ==
    IF n = 0 THEN m
    ELSE LET prev == entity_map_of_view(m, feature_view, n - 1)
             entity == get_entity(feature_view.entities[n])
             jkm == feature_view.projection.join_key_map
             entity_name == DictGetOr(jkm, entity.join_key, entity.name)
             join_key == DictGetOr(jkm, entity.join_key, entity.join_key)
         IN  DictSet(prev, entity_name, join_key)

RECURSIVE entity_map_of_views(_, _)
entity_map_of_views(m, feature_views) ==
    IF Len(feature_views) = 0 THEN m
    ELSE LET fv == feature_views[Len(feature_views)]
         IN  entity_map_of_view(
                 entity_map_of_views(m, SubSeq(feature_views, 1, Len(feature_views) - 1)),
                 fv, Len(fv.entities))

\* entity_type_map of _get_entity_maps: the type of every entity column
entity_type_map_of(feature_views) ==
    Flatten([i \in 1..Len(feature_views) |-> feature_views[i].entity_columns])

\* FeatureStore._get_entity_maps
_get_entity_maps(feature_views) ==
    LET entity_name_to_join_key_map ==
            entity_map_of_views(entity_map_of_entities(registry_entities), feature_views)
    IN  [entity_name_to_join_key_map |-> entity_name_to_join_key_map,
         entity_type_map |-> entity_type_map_of(feature_views),
         join_keys_set |-> {entity_name_to_join_key_map[i][2] :
                                i \in 1..Len(entity_name_to_join_key_map)}]

\* type_map.python_values_to_proto_values: each native value becomes a
\* Value of the column's type; an unknown type is inferred from the values
\* (Python ints are 64-bit integers)
python_values_to_proto_values(values, feature_type) ==
    LET kind == IF feature_type = UNKNOWN THEN INT64_VAL ELSE feature_type
    IN  [i \in 1..Len(values) |-> Val(kind, values[i])]

\* lines 1618-1628 of _get_online_features
to_entity_proto_values(entity_value_lists, entity_type_map, native) ==
    IF native
    THEN [i \in 1..Len(entity_value_lists) |->
             <<entity_value_lists[i][1],
               python_values_to_proto_values(
                   entity_value_lists[i][2],
                   DictGetOr(entity_type_map, entity_value_lists[i][1], UNKNOWN))>>]
    ELSE entity_value_lists

\* _validate_entity_values taking the length of the first column
_validate_entity_values_first_column(jkv) ==
    IF Len(jkv) = 0 THEN Raise("KeyError") ELSE Ok(Len(jkv[1][2]))

\* _validate_entity_values: the common length of the columns
_validate_entity_values(jkv) ==
    LET set_of_row_lengths == {Len(jkv[i][2]) : i \in 1..Len(jkv)}
    IN  IF Cardinality(set_of_row_lengths) > 1 THEN Raise("ValueError")
        ELSE IF set_of_row_lengths = {} THEN Raise("KeyError")
        ELSE Ok(CHOOSE n \in set_of_row_lengths : TRUE)

\* ref.split(":")[1]
feature_name_of(ref) == Split(ref)[2]

\* the references _validate_feature_refs reports as collided (none: valid)
collided_refs_bare(refs) ==
    LET feature_names == [i \in 1..Len(refs) |-> feature_name_of(refs[i])]
        counted == Distinct(feature_names)
        collided_feature_names ==
            SelectIdx(counted, {i \in 1..Len(counted) : Count(feature_names, counted[i]) > 1})
    IN  Flatten([j \in 1..Len(collided_feature_names) |->
            SelectIdx(refs, {i \in 1..Len(refs) :
                EndsWith(refs[i], <<COLON>> \o collided_feature_names[j])})])

collided_refs_full(refs) ==
    LET counted == Distinct(refs)
    IN  SelectIdx(counted, {i \in 1..Len(counted) : Count(refs, counted[i]) > 1})

\* _validate_feature_refs comparing bare feature names in both naming modes
_validate_feature_refs_bare_only(refs, full_names) ==
    IF Len(collided_refs_bare(refs)) > 0
    THEN [err |-> "FeatureNameCollisionError", val |-> collided_refs_bare(refs)]
    ELSE Ok(<<>>)

\* _validate_feature_refs
_validate_feature_refs(refs, full_names) ==
    LET collided_feature_refs ==
            IF full_names THEN collided_refs_full(refs) ELSE collided_refs_bare(refs)
    IN  IF Len(collided_feature_refs) > 0
        THEN [err |-> "FeatureNameCollisionError", val |-> collided_feature_refs]
        ELSE Ok(<<>>)

(***************************************************************************)
(* Grouping the references by table                                        *)
(***************************************************************************)
\* name in {view.projection.name_to_use(): view for view in views}
InIndex(views, view_name) ==
    \E i \in 1..Len(views) : name_to_use(views[i].projection) = view_name

\* index[name] : the last view of that name wins in the dict comprehension
IndexGet(views, view_name) ==
    views[CHOOSE i \in 1..Len(views) :
              /\ name_to_use(views[i].projection) = view_name
              /\ \A j \in (i + 1)..Len(views) :
                     name_to_use(views[j].projection) # view_name]

\* defaultdict(set)[k].add(x)
SetAdd(d, k, x) == DictSet(d, k, DictGetOr(d, k, {}) \cup {x})

\* for input_feat in input_fv_projection.features:
\*     views_features[input_fv_projection.name].add(input_feat.name)
RECURSIVE add_projection_features(_, _, _)
add_projection_features(vf, projection, n) ==
    IF n = 0 THEN vf
    ELSE SetAdd(add_projection_features(vf, projection, n - 1),
                projection.name, projection.features[n])

\* for input_fv_projection in odfv.source_feature_view_projections.values()
RECURSIVE add_source_features(_, _)
add_source_features(vf, projections) ==
    IF Len(projections) = 0 THEN vf
    ELSE LET p == projections[Len(projections)]
         IN  add_projection_features(
                 add_source_features(vf, SubSeq(projections, 1, Len(projections) - 1)),
                 p, Len(p.features))

\* group_loop leaving out the references whose table it does not find
RECURSIVE group_loop_skipping_unknown(_, _, _, _, _)
group_loop_skipping_unknown(refs, n, all_fvs, all_rfvs, all_odfvs) ==
    IF n = 0
    THEN [err |-> None, views_features |-> <<>>, request_views_features |-> <<>>,
          on_demand_view_features |-> <<>>, request_view_refs |-> {}]
    ELSE LET acc == group_loop_skipping_unknown(refs, n - 1, all_fvs, all_rfvs, all_odfvs)
             parts == Split(refs[n])
             view_name == parts[1]
             feat_name == parts[2]
         IN  IF acc.err # None THEN acc
             ELSE IF Len(parts) # 2 THEN [acc EXCEPT !.err = "ValueError"]
             ELSE IF InIndex(all_fvs, view_name)
             THEN IF ~has_feature(IndexGet(all_fvs, view_name).projection, feat_name)
                  THEN [acc EXCEPT !.err = "KeyError"]
                  ELSE [acc EXCEPT !.views_features = SetAdd(@, view_name, feat_name)]
             ELSE IF InIndex(all_odfvs, view_name)
             THEN IF ~has_feature(IndexGet(all_odfvs, view_name).projection, feat_name)
                  THEN [acc EXCEPT !.err = "KeyError"]
                  ELSE [acc EXCEPT
                          !.on_demand_view_features = SetAdd(@, view_name, feat_name),
                          !.views_features =
                              add_source_features(@,
                                  IndexGet(all_odfvs, view_name).source_feature_view_projections)]
             ELSE IF InIndex(all_rfvs, view_name)
             THEN IF ~has_feature(IndexGet(all_rfvs, view_name).projection, feat_name)
                  THEN [acc EXCEPT !.err = "KeyError"]
                  ELSE [acc EXCEPT
                          !.request_views_features = SetAdd(@, view_name, feat_name),
                          !.request_view_refs = @ \cup {refs[n]}]
             ELSE acc

\* the loop of _group_feature_refs over the first n references
RECURSIVE group_loop(_, _, _, _, _)
group_loop(refs, n, all_fvs, all_rfvs, all_odfvs) ==
    IF n = 0
    THEN [err |-> None, views_features |-> <<>>, request_views_features |-> <<>>,
          on_demand_view_features |-> <<>>, request_view_refs |-> {}]
    ELSE LET acc == group_loop(refs, n - 1, all_fvs, all_rfvs, all_odfvs)
             parts == Split(refs[n])
             view_name == parts[1]
             feat_name == parts[2]
         IN  IF acc.err # None THEN acc
             ELSE IF Len(parts) # 2 THEN [acc EXCEPT !.err = "ValueError"]
             ELSE IF InIndex(all_fvs, view_name)
             THEN IF ~has_feature(IndexGet(all_fvs, view_name).projection, feat_name)
                  THEN [acc EXCEPT !.err = "KeyError"]
                  ELSE [acc EXCEPT !.views_features = SetAdd(@, view_name, feat_name)]
             ELSE IF InIndex(all_odfvs, view_name)
             THEN IF ~has_feature(IndexGet(all_odfvs, view_name).projection, feat_name)
                  THEN [acc EXCEPT !.err = "KeyError"]
                  ELSE [acc EXCEPT
                          !.on_demand_view_features = SetAdd(@, view_name, feat_name),
                          !.views_features =
                              add_source_features(@,
                                  IndexGet(all_odfvs, view_name).source_feature_view_projections)]
             ELSE IF InIndex(all_rfvs, view_name)
             THEN IF ~has_feature(IndexGet(all_rfvs, view_name).projection, feat_name)
                  THEN [acc EXCEPT !.err = "KeyError"]
                  ELSE [acc EXCEPT
                          !.request_views_features = SetAdd(@, view_name, feat_name),
                          !.request_view_refs = @ \cup {refs[n]}]
             ELSE [acc EXCEPT !.err = "FeatureViewNotFoundException"]

\* the lists list(feature_names) can be, one per view of d
ListingsOf(d) ==
    {l \in [1..Len(d) -> UNION {Orderings(d[i][2]) : i \in 1..Len(d)}] :
        \A i \in 1..Len(d) : l[i] \in Orderings(d[i][2])}

\* [(index[view_name], list(feature_names)) for view_name, feature_names in d.items()]
grouped(views, d, listing) ==
    [i \in 1..Len(d) |-> <<IndexGet(views, d[i][1]), listing[i]>>]

\* requested_result_row_names, lines 1646-1653
requested_names_of(refs, full_names) ==
    LET qualified == {Replace(refs[i]) : i \in 1..Len(refs)}
    IN  IF full_names THEN qualified ELSE {RPartitionLast(name) : name \in qualified}

\* FeatureStore.get_needed_request_data
get_needed_request_data(g_odfv_refs, g_request_fv_refs) ==
    [needed_request_data |->
        UNION {Range(g_odfv_refs[i][1].request_data_schema) : i \in 1..Len(g_odfv_refs)},
     needed_request_fv_features |->
        UNION {Range(g_request_fv_refs[i][1].projection.features) :
                   i \in 1..Len(g_request_fv_refs)}]

\* entity_rows_loop accepting join keys only
RECURSIVE entity_rows_loop_join_keys_only(_, _, _, _, _, _)
entity_rows_loop_join_keys_only(epv, n, needed, name_map, join_keys_set, names) ==
    IF n = 0
    THEN [err |-> None, join_key_values |-> <<>>, request_data_features |-> <<>>,
          requested_result_row_names |-> names, warned |-> FALSE]
    ELSE LET acc == entity_rows_loop_join_keys_only(epv, n - 1, needed, name_map,
                                                    join_keys_set, names)
             join_key_or_entity_name == epv[n][1]
             values == epv[n][2]
         IN  IF acc.err # None THEN acc
             ELSE IF \/ join_key_or_entity_name \in needed.needed_request_data
                     \/ join_key_or_entity_name \in needed.needed_request_fv_features
             THEN [acc EXCEPT
                     !.requested_result_row_names =
                         IF join_key_or_entity_name \in needed.needed_request_fv_features
                         THEN @ \cup {join_key_or_entity_name} ELSE @,
                     !.request_data_features = DictSet(@, join_key_or_entity_name, values)]
             ELSE IF join_key_or_entity_name \notin join_keys_set
             THEN [acc EXCEPT !.err = "EntityNotFoundException"]
             ELSE [acc EXCEPT
                     !.requested_result_row_names = @ \cup {join_key_or_entity_name},
                     !.join_key_values = DictSet(@, join_key_or_entity_name, values)]

\* the loop over the entity rows' columns, lines 1661-1692, over the first
\* n columns
RECURSIVE entity_rows_loop(_, _, _, _, _, _)
entity_rows_loop(epv, n, needed, name_map, join_keys_set, names) ==
    IF n = 0
    THEN [err |-> None, join_key_values |-> <<>>, request_data_features |-> <<>>,
          requested_result_row_names |-> names, warned |-> FALSE]
    ELSE LET acc == entity_rows_loop(epv, n - 1, needed, name_map, join_keys_set, names)
             join_key_or_entity_name == epv[n][1]
             values == epv[n][2]
             join_key == IF join_key_or_entity_name \in join_keys_set
                         THEN join_key_or_entity_name
                         ELSE DictGet(name_map, join_key_or_entity_name)
         IN  IF acc.err # None THEN acc
             ELSE IF \/ join_key_or_entity_name \in needed.needed_request_data
                     \/ join_key_or_entity_name \in needed.needed_request_fv_features
             THEN [acc EXCEPT
                     !.requested_result_row_names =
                         IF join_key_or_entity_name \in needed.needed_request_fv_features
                         THEN @ \cup {join_key_or_entity_name} ELSE @,
                     !.request_data_features = DictSet(@, join_key_or_entity_name, values)]
             ELSE IF /\ join_key_or_entity_name \notin join_keys_set
                     /\ ~DictHas(name_map, join_key_or_entity_name)
             THEN [acc EXCEPT !.err = "EntityNotFoundException"]
             ELSE [acc EXCEPT
                     !.warned = @ \/ join_key_or_entity_name \notin join_keys_set,
                     !.requested_result_row_names = @ \cup {join_key},
                     !.join_key_values = DictSet(@, join_key, values)]

\* ensure_request_data_values_exist looking only at the inputs of the
\* computed tables
ensure_computed_inputs_exist(needed_request_data, needed_request_fv_features, rdf) ==
    IF \E x \in needed_request_data : ~DictHas(rdf, x)
    THEN [err |-> "RequestDataNotFoundInEntityRowsException",
          val |-> {x \in needed_request_data : ~DictHas(rdf, x)}]
    ELSE Ok({})

\* FeatureStore.ensure_request_data_values_exist
ensure_request_data_values_exist(needed_request_data, needed_request_fv_features, rdf) ==
    IF Cardinality(needed_request_data) + Cardinality(needed_request_fv_features) # Len(rdf)
    THEN [err |-> "RequestDataNotFoundInEntityRowsException",
          val |-> {x \in needed_request_data \cup needed_request_fv_features :
                       ~DictHas(rdf, x)}]
    ELSE Ok({})

(***************************************************************************)
(* Deduplication of the entity keys                                        *)
(***************************************************************************)
\* {v: k for k, v in join_key_map.items()}.get(k, k)
alias_to_join_key(join_key_map, k) ==
    IF \E i \in 1..Len(join_key_map) : join_key_map[i][2] = k
    THEN join_key_map[CHOOSE i \in 1..Len(join_key_map) :
                          /\ join_key_map[i][2] = k
                          /\ \A j \in (i + 1)..Len(join_key_map) : join_key_map[j][2] # k][1]
    ELSE k

\* the dict comprehension of _get_table_entity_values over the first n columns
RECURSIVE table_columns(_, _, _, _)
table_columns(jkv, n, join_key_map, table_join_keys) ==
    IF n = 0 THEN <<>>
    ELSE LET prev == table_columns(jkv, n - 1, join_key_map, table_join_keys)
             k == alias_to_join_key(join_key_map, jkv[n][1])
         IN  IF k \in Range(table_join_keys) THEN DictSet(prev, k, jkv[n][2]) ELSE prev

\* FeatureStore._get_table_entity_values
_get_table_entity_values(table, name_map, jkv) ==
    LET table_join_keys ==
            [i \in 1..Len(table.entities) |-> DictGet(name_map, table.entities[i])]
    IN  table_columns(jkv, Len(jkv), table.projection.join_key_map, table_join_keys)

Min(S) == CHOOSE x \in S : \A y \in S : x <= y

\* list(enumerate(zip(*table_entity_values.values()))): row -> tuple of Values,
\* rows 0-based
zip_rows(tev) ==
    IF Len(tev) = 0 THEN <<>>
    ELSE [r \in 1..Min({Len(tev[c][2]) : c \in 1..Len(tev)}) |->
             [c \in 1..Len(tev) |-> tev[c][2][r]]]

\* the sort key of a row: tuple(getattr(x, x.WhichOneof("val")) for x in row[1])
sort_key(row) == [c \in 1..Len(row) |-> row[c].val]

\* tuple comparison a < b
TupleLess(a, b) ==
    \E c \in 1..Len(a) : a[c] < b[c] /\ \A d \in 1..(c - 1) : a[d] = b[d]

\* sorted_rows leaving the rows in the order of the request
sorted_rows_as_sent(rows) == [p \in 1..Len(rows) |-> p - 1]

\* rowise.sort(key=...): the 0-based row numbers in sorted order; the sort is
\* stable, so rows of equal sort key keep their order
sorted_rows(rows) ==
    LET before(i, j) ==
            \/ TupleLess(sort_key(rows[i]), sort_key(rows[j]))
            \/ sort_key(rows[i]) = sort_key(rows[j]) /\ i < j
        rank(i) == Cardinality({j \in 1..Len(rows) : before(j, i)})
    IN  [p \in 1..Len(rows) |-> (CHOOSE i \in 1..Len(rows) : rank(i) = p - 1) - 1]

\* group_by keeping only the last row of each run
RECURSIVE group_by_last_row(_, _, _)
group_by_last_row(rows, order, n) ==
    IF n = 0 THEN <<>>
    ELSE LET prev == group_by_last_row(rows, order, n - 1)
             row == rows[order[n] + 1]
         IN  IF Len(prev) > 0 /\ prev[Len(prev)][1] = row
             THEN [prev EXCEPT ![Len(prev)] = <<row, <<order[n]>> >>]
             ELSE Append(prev, <<row, <<order[n]>> >>)

\* itertools.groupby(rowise, key=lambda x: x[1]) over the first n sorted rows:
\* a new group starts wherever the tuple of Values changes
RECURSIVE group_by(_, _, _)
group_by(rows, order, n) ==
    IF n = 0 THEN <<>>
    ELSE LET prev == group_by(rows, order, n - 1)
             row == rows[order[n] + 1]
         IN  IF Len(prev) > 0 /\ prev[Len(prev)][1] = row
             THEN [prev EXCEPT ![Len(prev)] = <<row, Append(@[2], order[n])>>]
             ELSE Append(prev, <<row, <<order[n]>> >>)

\* FeatureStore._get_unique_entities: the unique composite keys and, for
\* each, the rows where it occurs
_get_unique_entities(table, jkv, name_map) ==
    LET table_entity_values == _get_table_entity_values(table, name_map, jkv)
        keys == DictKeys(table_entity_values)
        rowise == zip_rows(table_entity_values)
        groups == group_by(rowise, sorted_rows(rowise), Len(rowise))
    IN  IF Len(groups) = 0 THEN Raise("ValueError")
        ELSE Ok([unique_entities |->
                     [g \in 1..Len(groups) |->
                         [c \in 1..Len(keys) |-> <<keys[c], groups[g][1][c]>>]],
                 indexes |-> [g \in 1..Len(groups) |-> groups[g][2]]])

\* scatter with output[idx - 1] = elem: an off-by-one, that Python wraps
\* around for idx = 0
RECURSIVE scatter_off_by_one(_, _, _, _)
scatter_off_by_one(output, lst, mapping_indexes, n) ==
    IF n = 0 THEN output
    ELSE LET prev == scatter_off_by_one(output, lst, mapping_indexes, n - 1)
             destinations == mapping_indexes[n]
         IN  [j \in 1..Len(prev) |->
                 IF \E d \in 1..Len(destinations) :
                        (destinations[d] - 1) % Len(prev) = j - 1
                 THEN lst[n] ELSE prev[j]]

\* apply_list_mapping over the first n pairs of zip(lst, mapping_indexes)
RECURSIVE scatter(_, _, _, _)
scatter(output, lst, mapping_indexes, n) ==
    IF n = 0 THEN output
    ELSE LET prev == scatter(output, lst, mapping_indexes, n - 1)
             destinations == mapping_indexes[n]
         IN  [j \in 1..Len(prev) |->
                 IF \E d \in 1..Len(destinations) : destinations[d] = j - 1
                 THEN lst[n] ELSE prev[j]]

Sum(lens) == Len(Flatten(lens))

\* apply_list_mapping with the output sized by the number of index lists
apply_list_mapping_per_group(lst, mapping_indexes) ==
    LET output == [j \in 1..Len(mapping_indexes) |-> None]
        n == IF Len(lst) < Len(mapping_indexes) THEN Len(lst) ELSE Len(mapping_indexes)
    IN  scatter(output, lst, mapping_indexes, n)

\* apply_list_mapping
apply_list_mapping(lst, mapping_indexes) ==
    LET output_len == Sum(mapping_indexes)
        output == [j \in 1..output_len |-> None]
        n == IF Len(lst) < Len(mapping_indexes) THEN Len(lst) ELSE Len(mapping_indexes)
    IN  scatter(output, lst, mapping_indexes, n)

(***************************************************************************)
(* The online store behind Provider.online_read                            *)
(***************************************************************************)
\* what the store holds for one entity key of a table: nothing, or a write
\* time and values for some of the table's features
BackendRows(requested_features) ==
    {[found |-> FALSE, present |-> {}]}
    \cup {[found |-> TRUE, present |-> S] : S \in SUBSET Range(requested_features)}

KindNo(kind) ==
    CASE kind = INT64_VAL -> 1 [] kind = INT32_VAL -> 2 [] kind = STRING_VAL -> 3 [] OTHER -> 4

\* a number that identifies an entity key (a dict join key -> Value)
RECURSIVE KeyCode(_)
KeyCode(entity_key) ==
    IF Len(entity_key) = 0 THEN 0
    ELSE 100 * KeyCode(SubSeq(entity_key, 1, Len(entity_key) - 1))
         + 10 * KindNo(entity_key[Len(entity_key)][2].kind)
         + entity_key[Len(entity_key)][2].val

StoredFeatures ==
    <<Ref(fvA.name, amount), Ref(fvA.name, rate), Ref(fvB.name, amount), Ref(fvB.name, avg_rate)>>

\* the value stored for a feature of a table under an entity key: values
\* are opaque to the store, each (table, feature, key) has its own
StoredValue(table, feature_name, entity_key) ==
    Val(DOUBLE_VAL,
        10000 * (CHOOSE i \in 1..Len(StoredFeatures) :
                     StoredFeatures[i] = Ref(table.name, feature_name))
        + KeyCode(entity_key))

\* the write time stored with an entity key
StoredTs(entity_key) == 100 + KeyCode(entity_key)

\* what Provider.online_read returns for one entity key:
\* (row_ts, feature_data), (None, None) on a miss
online_read_row(table, entity_key, row) ==
    [has_ts |-> row.found,
     row_ts |-> IF row.found THEN StoredTs(entity_key) ELSE 0,
     has_data |-> row.found,
     feature_data |-> [f \in row.present |-> StoredValue(table, f, entity_key)]]

\* read_row_proto reporting a miss as PRESENT null values
read_row_proto_miss_present(read_row, requested_features) ==
    LET row_ts_proto == IF read_row.has_ts THEN read_row.row_ts ELSE 0
        n == Len(requested_features)
    IN  [event_timestamps |-> [i \in 1..n |-> row_ts_proto],
         statuses |->
             [i \in 1..n |->
                 IF ~read_row.has_data THEN PRESENT
                 ELSE IF requested_features[i] \notin DOMAIN read_row.feature_data
                 THEN NOT_FOUND ELSE PRESENT],
         values |->
             [i \in 1..n |->
                 IF ~read_row.has_data THEN null_value
                 ELSE IF requested_features[i] \notin DOMAIN read_row.feature_data
                 THEN null_value ELSE read_row.feature_data[requested_features[i]]]]

\* read_row_proto treating a hit that lacks a requested feature as a miss
read_row_proto_all_or_nothing(read_row, requested_features) ==
    LET row_ts_proto == IF read_row.has_ts THEN read_row.row_ts ELSE 0
        n == Len(requested_features)
        complete == /\ read_row.has_data
                    /\ Range(requested_features) \subseteq DOMAIN read_row.feature_data
    IN  [event_timestamps |-> [i \in 1..n |-> row_ts_proto],
         statuses |-> [i \in 1..n |-> IF complete THEN PRESENT ELSE NOT_FOUND],
         values |->
             [i \in 1..n |->
                 IF complete THEN read_row.feature_data[requested_features[i]]
                 ELSE null_value]]

\* the loop body of _read_from_online_store, lines 1961-1982, for one row
read_row_proto(read_row, requested_features) ==
    LET row_ts_proto == IF read_row.has_ts THEN read_row.row_ts ELSE 0
        n == Len(requested_features)
    IN  [event_timestamps |-> [i \in 1..n |-> row_ts_proto],
         statuses |->
             [i \in 1..n |->
                 IF ~read_row.has_data THEN NOT_FOUND
                 ELSE IF requested_features[i] \notin DOMAIN read_row.feature_data
                 THEN NOT_FOUND ELSE PRESENT],
         values |->
             [i \in 1..n |->
                 IF ~read_row.has_data THEN null_value
                 ELSE IF requested_features[i] \notin DOMAIN read_row.feature_data
                 THEN null_value ELSE read_row.feature_data[requested_features[i]]]]

\* FeatureStore._read_from_online_store, given what online_read returned
_read_from_online_store(read_rows, requested_features) ==
    [k \in 1..Len(read_rows) |-> read_row_proto(read_rows[k], requested_features)]

(***************************************************************************)
(* Building the response                                                   *)
(***************************************************************************)
FeatureVector(values, statuses, event_timestamps) ==
    [values |-> values, statuses |-> statuses, event_timestamps |-> event_timestamps]

\* FeatureStore._populate_result_rows_from_columnar; Timestamp() is the
\* unset timestamp
_populate_result_rows_from_columnar(resp, data) ==
    [feature_names |-> resp.feature_names \o DictKeys(data),
     results |-> resp.results \o
         [i \in 1..Len(data) |->
             FeatureVector(data[i][2],
                           [r \in 1..Len(data[i][2]) |-> PRESENT],
                           [r \in 1..Len(data[i][2]) |-> 0])]]

\* requested_feature_refs of _populate_response_from_feature_data
output_names(table, requested_features, full_names) ==
    [i \in 1..Len(requested_features) |->
        IF full_names
        THEN Qualified(name_to_use(table.projection), requested_features[i])
        ELSE requested_features[i]]

\* _populate_response_from_feature_data pairing the positions of the read
\* with the index lists in reverse
_populate_response_with_indexes_reversed(feature_data, indexes, resp, full_names, requested_features, table) ==
    LET reversed == [k \in 1..Len(indexes) |-> indexes[Len(indexes) + 1 - k]]
    IN  [feature_names |-> resp.feature_names
                           \o output_names(table, requested_features, full_names),
         results |-> resp.results \o
             [f \in 1..Len(requested_features) |->
                 FeatureVector(
                     apply_list_mapping(
                         [k \in 1..Len(feature_data) |-> feature_data[k].values[f]], reversed),
                     apply_list_mapping(
                         [k \in 1..Len(feature_data) |-> feature_data[k].statuses[f]], reversed),
                     apply_list_mapping(
                         [k \in 1..Len(feature_data) |-> feature_data[k].event_timestamps[f]],
                         reversed))]]

\* FeatureStore._populate_response_from_feature_data
_populate_response_from_feature_data(feature_data, indexes, resp, full_names, requested_features, table) ==
    [feature_names |-> resp.feature_names
                       \o output_names(table, requested_features, full_names),
     results |-> resp.results \o
         [f \in 1..Len(requested_features) |->
             FeatureVector(
                 apply_list_mapping(
                     [k \in 1..Len(feature_data) |-> feature_data[k].values[f]], indexes),
                 apply_list_mapping(
                     [k \in 1..Len(feature_data) |-> feature_data[k].statuses[f]], indexes),
                 apply_list_mapping(
                     [k \in 1..Len(feature_data) |-> feature_data[k].event_timestamps[f]],
                     indexes))]]

\* OnlineResponse.to_df: one column per feature name; of two vectors of the
\* same name the later one is the column
df_column(resp, name) ==
    resp.results[CHOOSE i \in 1..Len(resp.feature_names) :
                     /\ resp.feature_names[i] = name
                     /\ \A j \in (i + 1)..Len(resp.feature_names) :
                            resp.feature_names[j] # name].values

\* the names under which the data frame holds the inputs of a computed table
odfv_input_names(odfv, full_names) ==
    Flatten([p \in 1..Len(odfv.source_feature_view_projections) |->
        output_names([projection |-> odfv.source_feature_view_projections[p]],
                     odfv.source_feature_view_projections[p].features, full_names)])
    \o odfv.request_data_schema

RECURSIVE SumVals(_, _)
SumVals(columns, r) ==
    IF Len(columns) = 0 THEN 0 ELSE columns[1][r].val + SumVals(Tail(columns), r)

\* OnDemandFeatureView.get_transformed_features_df: the table's features,
\* each computed row by row from the table's inputs, under qualified or bare
\* column names
get_transformed_features_df(odfv, resp, full_names, n_rows) ==
    LET inputs == odfv_input_names(odfv, full_names)
        columns == [i \in 1..Len(inputs) |-> df_column(resp, inputs[i])]
    IN  [c \in 1..Len(odfv.projection.features) |->
            <<IF full_names
              THEN Qualified(name_to_use(odfv.projection), odfv.projection.features[c])
              ELSE odfv.projection.features[c],
              [r \in 1..n_rows |-> 100000 * c + SumVals(columns, r)]>>]

\* odfv_feature_refs of _augment_response_with_on_demand_transforms over the
\* first n references: computed table -> the output names requested from it
RECURSIVE odfv_feature_refs(_, _, _, _)
odfv_feature_refs(refs, n, odfvs, full_names) ==
    IF n = 0 THEN <<>>
    ELSE LET prev == odfv_feature_refs(refs, n - 1, odfvs, full_names)
             view_name == Split(refs[n])[1]
             feature_name == Split(refs[n])[2]
         IN  IF \E i \in 1..Len(odfvs) : odfvs[i].name = view_name
             THEN DictSet(prev, view_name,
                      Append(DictGetOr(prev, view_name, <<>>),
                             IF full_names
                             THEN Qualified(
                                      name_to_use(
                                          odfvs[CHOOSE i \in 1..Len(odfvs) :
                                                    odfvs[i].name = view_name].projection),
                                      feature_name)
                             ELSE feature_name))
             ELSE prev

\* the loop of _augment_response_with_on_demand_transforms appending every
\* column of the transformed data frame
RECURSIVE augment_loop_all_columns(_, _, _, _, _, _)
augment_loop_all_columns(resp, initial_response, by_view, n, odfvs, full_names) ==
    IF n = 0 THEN resp
    ELSE LET prev == augment_loop_all_columns(resp, initial_response, by_view, n - 1, odfvs, full_names)
             odfv == odfvs[CHOOSE i \in 1..Len(odfvs) : odfvs[i].name = by_view[n][1]]
             n_rows == IF Len(initial_response.results) = 0 THEN 0
                       ELSE Len(initial_response.results[1].values)
             transformed == get_transformed_features_df(odfv, initial_response,
                                                        full_names, n_rows)
             selected_subset == transformed
         IN  [feature_names |-> prev.feature_names \o DictKeys(selected_subset),
              results |-> prev.results \o
                  [c \in 1..Len(selected_subset) |->
                      FeatureVector(
                          python_values_to_proto_values(selected_subset[c][2], UNKNOWN),
                          [r \in 1..Len(selected_subset[c][2]) |-> PRESENT],
                          [r \in 1..Len(selected_subset[c][2]) |-> 0])]]

\* the loop of _augment_response_with_on_demand_transforms over the first n
\* computed tables
RECURSIVE augment_loop(_, _, _, _, _, _)
augment_loop(resp, initial_response, by_view, n, odfvs, full_names) ==
    IF n = 0 THEN resp
    ELSE LET prev == augment_loop(resp, initial_response, by_view, n - 1, odfvs, full_names)
             odfv == odfvs[CHOOSE i \in 1..Len(odfvs) : odfvs[i].name = by_view[n][1]]
             n_rows == IF Len(initial_response.results) = 0 THEN 0
                       ELSE Len(initial_response.results[1].values)
             transformed == get_transformed_features_df(odfv, initial_response,
                                                        full_names, n_rows)
             selected_subset ==
                 SelectIdx(transformed,
                     {c \in 1..Len(transformed) : transformed[c][1] \in Range(by_view[n][2])})
         IN  [feature_names |-> prev.feature_names \o DictKeys(selected_subset),
              results |-> prev.results \o
                  [c \in 1..Len(selected_subset) |->
                      FeatureVector(
                          python_values_to_proto_values(selected_subset[c][2], UNKNOWN),
                          [r \in 1..Len(selected_subset[c][2]) |-> PRESENT],
                          [r \in 1..Len(selected_subset[c][2]) |-> 0])]]

\* FeatureStore._augment_response_with_on_demand_transforms
_augment_response_with_on_demand_transforms(resp, refs, odfvs, full_names) ==
    LET by_view == odfv_feature_refs(refs, Len(refs), odfvs, full_names)
    IN  augment_loop(resp, resp, by_view, Len(by_view), odfvs, full_names)

\* the positions _drop_unneeded_columns keeps
needed_feature_indices(resp, names) ==
    {i \in 1..Len(resp.feature_names) : resp.feature_names[i] \in names}

\* _drop_unneeded_columns deleting nothing
_drop_no_columns(resp, names) == resp

\* _drop_unneeded_columns deleting the names only
_drop_names_only(resp, names) ==
    [feature_names |-> SelectIdx(resp.feature_names, needed_feature_indices(resp, names)),
     results |-> resp.results]

\* FeatureStore._drop_unneeded_columns
_drop_unneeded_columns(resp, names) ==
    [feature_names |-> SelectIdx(resp.feature_names, needed_feature_indices(resp, names)),
     results |-> SelectIdx(resp.results, needed_feature_indices(resp, names))]

(***************************************************************************)
(* The requests the model issues                                           *)
(***************************************************************************)
KeyVals == {1, 2}

RefUniverse ==
    {Ref(fvA.name, amount), Ref(fvA.name, rate), Ref(fvB.name, amount),
     Ref(fvB.name, avg_rate), Ref(od.name, pct), Ref(rfv.name, flag),
     Ref(Name("zz"), amount)}

FeatureLists == SeqsUpTo(RefUniverse, MaxRefs)

\* the columns a caller sends: the join key, the entity's name, the request
\* fields, a name the registry does not know
ColumnLists ==
    {<<driver.join_key>>, <<driver.name>>, <<driver.join_key, req>>,
     <<driver.join_key, flag>>, <<driver.join_key, req, flag>>,
     <<driver.join_key, Name("bogus")>>, <<req>>, <<>>}

KeyLists == UNION {[1..n -> KeyVals] : n \in 1..MaxRows}

\* native entity rows, one dict per row: key columns carry the keys, request
\* columns one value per row
EntityRowsOf(cols, keys) ==
    [r \in 1..Len(keys) |->
        [i \in 1..Len(cols) |->
            <<cols[i], IF cols[i] \in {req, flag} THEN 30 + r ELSE keys[r]>>]]

\* every list of references, over every choice of columns, for two rows of
\* one key
WideRequests ==
    {[features |-> FeatureList(f), entity_rows |-> EntityRowsOf(cols, <<1, 1>>)] :
        f \in FeatureLists, cols \in ColumnLists}

\* the lists of references that read one table, two tables, and a computed
\* table with its source
CoreFeatureLists ==
    {<<Ref(fvA.name, amount)>>,
     <<Ref(fvA.name, rate), Ref(fvA.name, amount)>>,
     <<Ref(fvB.name, avg_rate), Ref(fvA.name, amount)>>,
     <<Ref(od.name, pct)>>,
     <<Ref(od.name, pct), Ref(fvB.name, amount)>>}

CoreColumnLists == {<<driver.join_key>>, <<driver.name>>, <<driver.join_key, req>>}

\* the core lists of references over every batch of up to MaxRows rows
DeepRequests ==
    {[features |-> FeatureList(f), entity_rows |-> EntityRowsOf(cols, keys)] :
        f \in CoreFeatureLists, cols \in CoreColumnLists, keys \in KeyLists}

\* requests by feature service, with the join key under its alias, under its
\* own name and as the entity's name
ServiceRequests ==
    {[features |-> f, entity_rows |-> EntityRowsOf(cols, keys)] :
        f \in Range(registry_feature_services),
        cols \in {<<origin_id>>, <<driver.join_key>>, <<driver.name, req>>},
        keys \in {<<1>>, <<2, 1, 2>>}}

\* batches whose rows do not all have the same columns, and the empty batch
UnevenEntityRows ==
    LET key_row(k) == << <<driver.join_key, k>> >>
        req_row(v) == << <<req, v>> >>
        full_row(k, v) == << <<driver.join_key, k>>, <<req, v>> >>
    IN  {<<full_row(1, 31), key_row(2)>>,
         <<key_row(1), full_row(2, 32)>>,
         <<full_row(1, 31), req_row(32), full_row(1, 33)>>,
         <<key_row(1), <<>>, key_row(2)>>,
         <<>>}

UnevenRequests ==
    {[features |-> FeatureList(f), entity_rows |-> rows] :
        f \in CoreFeatureLists, rows \in UnevenEntityRows}

\* requests for the request table whose feature is also an input field of
\* the computed table, with and without the field among the columns
SharedFieldRequests ==
    {[features |-> FeatureList(f), entity_rows |-> EntityRowsOf(cols, keys)] :
        f \in {<<Ref(rqv.name, req)>>, <<Ref(od.name, pct), Ref(rqv.name, req)>>},
        cols \in {<<driver.join_key, req>>, <<driver.join_key>>},
        keys \in {<<1>>, <<1, 2>>}}

Requests ==
    WideRequests \cup DeepRequests \cup ServiceRequests \cup UnevenRequests
    \cup SharedFieldRequests

\* the requests of a caller that calls twice: lists and services that read
\* one or two tables, that fail before or after the references are grouped,
\* for one row and for batches of MaxRows rows
RepeatedRequests ==
    {[features |-> FeatureList(f), entity_rows |-> EntityRowsOf(cols, keys)] :
        f \in CoreFeatureLists \cup {<<>>, <<Ref(Name("zz"), amount)>>},
        cols \in {<<driver.join_key, req>>, <<driver.name>>,
                  <<driver.join_key, Name("bogus")>>},
        keys \in {<<1>>} \cup {k \in KeyLists : Len(k) = MaxRows /\ k[1] = 2 /\ k[Len(k)] = 2}}
    \cup {[features |-> f, entity_rows |-> EntityRowsOf(cols, <<2, 1, 2>>)] :
              f \in Range(registry_feature_services),
              cols \in {<<origin_id>>, <<driver.join_key, req>>}}
    \cup {[features |-> FeatureList(<<Ref(fvA.name, amount)>>), entity_rows |-> rows] :
              rows \in UnevenEntityRows}

\* lines 1525-1531 of get_online_features: the entity rows as columns, over
\* the first n rows
RECURSIVE to_columnar(_, _)
to_columnar(entity_rows, n) ==
    IF n = 0
    THEN Ok([i \in 1..Len(entity_rows[1]) |-> <<entity_rows[1][i][1], <<>> >>])
    ELSE LET prev == to_columnar(entity_rows, n - 1)
             entity_row == entity_rows[n]
         IN  IF prev.err # None THEN prev
             ELSE IF \E i \in 1..Len(entity_row) : ~DictHas(prev.val, entity_row[i][1])
             THEN Raise("ValueError")
             ELSE Ok([c \in 1..Len(prev.val) |->
                         IF DictHas(entity_row, prev.val[c][1])
                         THEN <<prev.val[c][1],
                                Append(prev.val[c][2], DictGet(entity_row, prev.val[c][1]))>>
                         ELSE prev.val[c]])

\* entity_rows[0] of an empty list
columnar(entity_rows) ==
    IF Len(entity_rows) = 0 THEN Raise("IndexError")
    ELSE to_columnar(entity_rows, Len(entity_rows))

(***************************************************************************)
(* State                                                                   *)
(***************************************************************************)
VARIABLES
    pc,                          \* the step _get_online_features is at
    err,                         \* the exception that ended the request
    features,                    \* argument: the feature references
    entity_rows,                 \* argument of get_online_features: the entity rows
    entity_values,               \* argument: the entity rows, columnar
    full_feature_names,          \* argument: qualified output names
    native_entity_values,        \* argument: the values are native
    feature_refs,                \* _feature_refs
    requested_feature_views,
    requested_request_feature_views,
    requested_on_demand_feature_views,
    entity_proto_values,
    num_rows,
    collided,                    \* the references FeatureNameCollisionError lists
    grouped_refs,
    grouped_odfv_refs,
    grouped_request_fv_refs,
    requested_result_row_names,
    join_key_values,
    request_data_features,
    warned,                      \* the entity-name deprecation warning was issued
    response,                    \* online_features_response
    origin,                      \* history: where each vector of the response came from
    table_i,                     \* position of the loop over grouped_refs
    idxs,                        \* idxs of the last loop iteration
    table_entity_values,         \* table_entity_values of the last loop iteration
    reads,                       \* history: the calls of Provider.online_read
    first,                       \* history: how the caller's previous, identical call went
    apply_pc,                    \* the step apply is at
    apply_err,                   \* the exception that ended apply
    apply_args,                  \* arguments of apply: objects, objects_to_delete, partial
    data_sources_to_update,      \* list(data_sources_set_to_update)
    apply_i,                     \* position in the registry calls that stage the changes
    registry_log,                \* history: the calls apply made on the registry and the provider
    mat_pc,                      \* the step materialize or materialize_incremental is at
    mat_err,                     \* the exception that ended it
    mat_args,                    \* its arguments: incremental, start_date, end_date, feature_views
    feature_views_to_materialize,
    mat_i,                       \* position of the loop over feature_views_to_materialize
    mat_interval,                \* start_date and end_date of the view the loop is at
    mat_log,                     \* history: the calls this call made on the provider and the registry
    materialization_intervals,   \* the registry: view name -> its materialization intervals
    intervals_before,            \* history: the registry's intervals when the call began
    mat_calls,                   \* number of calls so far
    refresh_pc,                  \* per thread: the step refresh_registry is at
    refresh_err,                 \* per thread: the exception that ended refresh_registry
    local_registry,              \* per thread: the local variable registry
    registries,                  \* the Registry objects: their cache
    store_registry,              \* self._registry: the Registry object the store refers to
    remote_version,              \* the content of the remote registry store
    reader_pc,                   \* the step a get_online_features call is at in its metadata lookups
    lookup_plan,                 \* the registry lookups that call makes, in order
    lookups                      \* history: the lookups made, and the Registry object that answered

args == <<features, entity_rows, entity_values, full_feature_names, native_entity_values>>
resolved == <<feature_refs, entity_proto_values, num_rows, collided>>
views == <<requested_feature_views, requested_request_feature_views,
          requested_on_demand_feature_views>>
groups == <<grouped_refs, grouped_odfv_refs, grouped_request_fv_refs>>
rows_state == <<requested_result_row_names, join_key_values, request_data_features, warned>>
loop_state == <<table_i, idxs, table_entity_values, reads>>
apply_state ==
    <<apply_pc, apply_err, apply_args, data_sources_to_update, apply_i, registry_log>>
online_state ==
    <<pc, err, args, resolved, views, groups, rows_state, response, origin, loop_state, first>>
materialize_state ==
    <<mat_pc, mat_err, mat_args, feature_views_to_materialize, mat_i, mat_interval, mat_log,
      materialization_intervals, intervals_before, mat_calls>>
refresh_state ==
    <<refresh_pc, refresh_err, local_registry, registries, store_registry, remote_version,
      reader_pc, lookup_plan, lookups>>
other_state == <<materialize_state, refresh_state>>
vars == <<online_state, apply_state, other_state>>

(***************************************************************************)
(* Materialization: the views, the arguments, the initial registry         *)
(***************************************************************************)
MaxCalls == 2

\* datetime.utcnow(), later than every date a caller passes
utcnow == 9

\* timedelta(weeks=52), in the model's unit of time
weeks_52 == 5

\* the dates callers pass
Dates == {1, 2}

\* a feature view as materialization sees it: online, ttl (None or seconds)
\* and the intervals materialized so far
ViewToMaterialize(name, online, has_ttl, ttl) ==
    [name |-> name, online |-> online, has_ttl |-> has_ttl, ttl |-> ttl]

\* Registry.list_feature_views: a view with a ttl, a view without one, a
\* view that is not served online
materializable_feature_views ==
    <<ViewToMaterialize(fvA.name, TRUE, TRUE, 1),
      ViewToMaterialize(fvB.name, TRUE, FALSE, 0),
      ViewToMaterialize(Name("archive"), FALSE, TRUE, 1)>>

\* Registry.list_stream_feature_views: a stream view with ttl 0
materializable_stream_feature_views == <<ViewToMaterialize(Name("sfv"), TRUE, TRUE, 0)>>

\* the feature_views argument: None, or a list of names
NoViews == [given |-> FALSE, names |-> <<>>]
ViewNames(names) == [given |-> TRUE, names |-> names]

FeatureViewsArguments ==
    {NoViews,
     ViewNames(<<fvA.name>>),
     ViewNames(<<fvA.name, Name("sfv")>>),
     ViewNames(<<fvB.name, fvA.name>>),
     ViewNames(<<fvA.name, fvA.name>>),
     ViewNames(<<fvA.name, Name("archive")>>),
     ViewNames(<<Name("zz")>>)}

\* FeatureStore._get_feature_views_to_materialize over the first n names
RECURSIVE named_views_to_materialize(_, _)
named_views_to_materialize(names, n) ==
    IF n = 0 THEN Ok(<<>>)
    ELSE LET prev == named_views_to_materialize(names, n - 1)
             all == materializable_feature_views \o materializable_stream_feature_views
         IN  IF prev.err # None THEN prev
             ELSE IF ~\E i \in 1..Len(all) : all[i].name = names[n]
             THEN Raise("FeatureViewNotFoundException")
             ELSE LET feature_view == all[CHOOSE i \in 1..Len(all) : all[i].name = names[n]]
                  IN  IF ~feature_view.online THEN Raise("ValueError")
                      ELSE Ok(Append(prev.val, feature_view))

\* FeatureStore._get_feature_views_to_materialize
_get_feature_views_to_materialize(feature_views) ==
    IF ~feature_views.given
    THEN Ok(SelectSeq(materializable_feature_views, LAMBDA fv : fv.online)
            \o SelectSeq(materializable_stream_feature_views, LAMBDA sfv : sfv.online))
    ELSE named_views_to_materialize(feature_views.names, Len(feature_views.names))

\* the names of the views the registry holds intervals for
MaterializableNames ==
    {materializable_feature_views[i].name : i \in 1..Len(materializable_feature_views)}
    \cup {materializable_stream_feature_views[i].name :
              i \in 1..Len(materializable_stream_feature_views)}

NoInterval == [start_date |-> 0, end_date |-> 0]

InitMaterialize ==
    /\ mat_pc = "idle"
    /\ mat_err = None
    /\ mat_args = [incremental |-> FALSE, start_date |-> 0, end_date |-> 0,
                   feature_views |-> NoViews]
    /\ feature_views_to_materialize = <<>>
    /\ mat_i = 1
    /\ mat_interval = NoInterval
    /\ mat_log = <<>>
    /\ materialization_intervals = [name \in MaterializableNames |-> <<>>]
    /\ intervals_before = [name \in MaterializableNames |-> <<>>]
    /\ mat_calls = 0

(***************************************************************************)
(* Registry refresh: the Registry objects                                   *)
(***************************************************************************)
MaxVersion == 1
MaxRefreshes == 2

\* the threads that call refresh_registry
Threads == {1, 2}

\* a Registry object that does not exist yet
EmptyRegistry == [constructed |-> FALSE, refreshed |-> FALSE, version |-> 0]

\* the Registry object the store was constructed with, and the objects that
\* the calls of refresh_registry construct, one per call
RegistryIds == 0..MaxRefreshes

NoRegistry == 0 - 1

\* the registry lookups of one call of _get_online_features, in order:
\* _get_features (for a service), _get_feature_views_to_use, _get_entity_maps
LookupsOf(with_service, entity_lookups) ==
    (IF with_service THEN <<"get_feature_service">> ELSE <<>>)
    \o <<"list_feature_views", "list_stream_feature_views", "list_request_feature_views",
         "list_on_demand_feature_views", "list_entities">>
    \o [i \in 1..entity_lookups |-> "get_entity"]

InitRefresh ==
    /\ refresh_pc = [t \in Threads |-> "idle"]
    /\ refresh_err = [t \in Threads |-> None]
    /\ local_registry = [t \in Threads |-> NoRegistry]
    /\ registries = [id \in RegistryIds |->
                        IF id = 0
                        THEN [constructed |-> TRUE, refreshed |-> TRUE, version |-> 0]
                        ELSE EmptyRegistry]
    /\ store_registry = 0
    /\ remote_version = 0
    /\ reader_pc = "idle"
    /\ lookup_plan = <<>>
    /\ lookups = <<>>

EmptyResponse == [feature_names |-> <<>>, results |-> <<>>]

\* no call came before this one
NoCall ==
    [pc |-> "idle", err |-> None, response |-> EmptyResponse, origin |-> <<>>,
     groups |-> << <<>>, <<>>, <<>> >>, reads |-> <<>>]

Init ==
    /\ pc = "idle"
    /\ err = None
    /\ features = FeatureList(<<>>)
    /\ entity_rows = <<>>
    /\ entity_values = <<>>
    /\ full_feature_names = FALSE
    /\ native_entity_values = TRUE
    /\ feature_refs = <<>>
    /\ requested_feature_views = <<>>
    /\ requested_request_feature_views = <<>>
    /\ requested_on_demand_feature_views = <<>>
    /\ entity_proto_values = <<>>
    /\ num_rows = 0
    /\ collided = <<>>
    /\ grouped_refs = <<>>
    /\ grouped_odfv_refs = <<>>
    /\ grouped_request_fv_refs = <<>>
    /\ requested_result_row_names = {}
    /\ join_key_values = <<>>
    /\ request_data_features = <<>>
    /\ warned = FALSE
    /\ response = EmptyResponse
    /\ origin = <<>>
    /\ table_i = 1
    /\ idxs = <<>>
    /\ table_entity_values = <<>>
    /\ reads = <<>>
    /\ first = NoCall
    /\ apply_pc = "idle"
    /\ apply_err = None
    /\ apply_args = [objects |-> <<>>, objects_to_delete |-> <<>>, partial |-> TRUE]
    /\ data_sources_to_update = <<>>
    /\ apply_i = 1
    /\ registry_log = <<>>
    /\ InitMaterialize
    /\ InitRefresh

Fail(e) == pc' = "error" /\ err' = e

entity_maps == _get_entity_maps(requested_feature_views)

(***************************************************************************)
(* _get_online_features, step by step                                      *)
(***************************************************************************)
\* a caller calls get_online_features, which turns the entity rows into
\* columns of native values and calls _get_online_features
CallWith(requests) ==
    /\ pc = "idle"
    /\ \E request \in requests, full \in BOOLEAN :
          /\ features' = request.features
          /\ entity_rows' = request.entity_rows
          /\ full_feature_names' = full
          /\ native_entity_values' = TRUE
          /\ IF columnar(request.entity_rows).err # None
             THEN Fail(columnar(request.entity_rows).err) /\ UNCHANGED entity_values
             ELSE /\ entity_values' = columnar(request.entity_rows).val
                  /\ pc' = "get_features"
                  /\ UNCHANGED err
    /\ UNCHANGED <<apply_state, other_state, first, resolved, views, groups, rows_state, response, origin, loop_state>>

Call == CallWith(Requests)

\* lines 1596-1603: _get_features and _get_feature_views_to_use
GetFeatures ==
    /\ pc = "get_features"
    /\ LET r == _get_features(features)
           v == _get_feature_views_to_use(features)
       IN  IF r.err # None
           THEN Fail(r.err) /\ UNCHANGED <<feature_refs, views>>
           ELSE IF v.err # None
           THEN Fail(v.err) /\ feature_refs' = r.val /\ UNCHANGED views
           ELSE /\ pc' = "entity_values"
                /\ feature_refs' = r.val
                /\ requested_feature_views' = v.val[1]
                /\ requested_request_feature_views' = v.val[2]
                /\ requested_on_demand_feature_views' = v.val[3]
                /\ UNCHANGED err
    /\ UNCHANGED <<apply_state, other_state, first, args, entity_proto_values, num_rows, collided, groups, rows_state,
                   response, origin, loop_state>>

\* lines 1612-1630: the entity maps, the conversion of the entity values,
\* _validate_entity_values
EntityValues ==
    /\ pc = "entity_values"
    /\ LET epv == to_entity_proto_values(entity_values, entity_maps.entity_type_map,
                                         native_entity_values)
           r == _validate_entity_values(epv)
       IN  /\ entity_proto_values' = epv
           /\ IF r.err # None
              THEN Fail(r.err) /\ UNCHANGED num_rows
              ELSE pc' = "validate_refs" /\ num_rows' = r.val /\ UNCHANGED err
    /\ UNCHANGED <<apply_state, other_state, first, args, feature_refs, collided, views, groups, rows_state, response, origin,
                   loop_state>>

\* line 1631: _validate_feature_refs
ValidateFeatureRefs ==
    /\ pc = "validate_refs"
    /\ LET r == _validate_feature_refs(feature_refs, full_feature_names)
       IN  IF r.err # None
           THEN Fail(r.err) /\ collided' = r.val
           ELSE pc' = "group" /\ UNCHANGED <<err, collided>>
    /\ UNCHANGED <<apply_state, other_state, first, args, feature_refs, entity_proto_values, num_rows, views, groups, rows_state,
                   response, origin, loop_state>>

\* list(feature_names) listing a set in an order of its own at every call
listed_in_any_order(new_groups) == TRUE

\* list(feature_names) of lines 2507-2512: the interpreter that listed the
\* sets of the previous call lists the same sets, built by the same
\* insertions, in the same order
listed_as_before(new_groups) == first.pc = "idle" \/ new_groups = first.groups

\* lines 1632-1653: _group_feature_refs and the requested result names; a
\* set of feature names is listed in an order the code does not fix
GroupFeatureRefs ==
    /\ pc = "group"
    /\ LET g == group_loop(feature_refs, Len(feature_refs), requested_feature_views,
                           requested_request_feature_views,
                           requested_on_demand_feature_views)
       IN  IF g.err # None
           THEN Fail(g.err) /\ UNCHANGED <<groups, requested_result_row_names>>
           ELSE /\ \E lf \in ListingsOf(g.views_features),
                      lo \in ListingsOf(g.on_demand_view_features),
                      lr \in ListingsOf(g.request_views_features) :
                       /\ grouped_refs' =
                              grouped(requested_feature_views, g.views_features, lf)
                       /\ grouped_odfv_refs' =
                              grouped(requested_on_demand_feature_views,
                                      g.on_demand_view_features, lo)
                       /\ grouped_request_fv_refs' =
                              grouped(requested_request_feature_views,
                                      g.request_views_features, lr)
                       /\ listed_as_before(<<grouped_refs', grouped_odfv_refs',
                                             grouped_request_fv_refs'>>)
                /\ requested_result_row_names' =
                       requested_names_of(feature_refs, full_feature_names)
                /\ pc' = "entity_rows"
                /\ UNCHANGED err
    /\ UNCHANGED <<apply_state, other_state, first, args, resolved, views, join_key_values, request_data_features, warned,
                   response, origin, loop_state>>

\* lines 1657-1696: the needed request data, the loop over the entity rows'
\* columns, ensure_request_data_values_exist
EntityRows ==
    /\ pc = "entity_rows"
    /\ LET needed == get_needed_request_data(grouped_odfv_refs, grouped_request_fv_refs)
           l == entity_rows_loop(entity_proto_values, Len(entity_proto_values), needed,
                                 entity_maps.entity_name_to_join_key_map,
                                 entity_maps.join_keys_set, requested_result_row_names)
           e == ensure_request_data_values_exist(needed.needed_request_data,
                                                 needed.needed_request_fv_features,
                                                 l.request_data_features)
       IN  /\ join_key_values' = l.join_key_values
           /\ request_data_features' = l.request_data_features
           /\ requested_result_row_names' = l.requested_result_row_names
           /\ warned' = l.warned
           /\ IF l.err # None THEN Fail(l.err)
              ELSE IF e.err # None THEN Fail(e.err)
              ELSE pc' = "populate" /\ UNCHANGED err
    /\ UNCHANGED <<apply_state, other_state, first, args, resolved, views, groups, response, origin, loop_state>>

\* feature_views of line 1655 and entityless_case of lines 1707-1711
entityless_case(g_refs) ==
    \E i \in 1..Len(g_refs) : DUMMY_ENTITY_NAME \in Range(g_refs[i][1].entities)

\* lines 1698-1715: the echo columns, then the placeholder key column
Populate ==
    /\ pc = "populate"
    /\ LET data == join_key_values \o request_data_features
       IN  /\ response' = _populate_result_rows_from_columnar(EmptyResponse, data)
           /\ origin' = [i \in 1..Len(data) |->
                            [kind |-> "echo", view |-> NoName, feature |-> data[i][1]]]
    /\ join_key_values' =
           IF entityless_case(grouped_refs)
           THEN DictSet(join_key_values, DUMMY_ENTITY_ID,
                        python_values_to_proto_values(
                            [r \in 1..num_rows |-> DUMMY_ENTITY_VAL],
                            DUMMY_ENTITY.value_type))
           ELSE join_key_values
    /\ pc' = "tables"
    /\ UNCHANGED <<apply_state, other_state, first, err, args, resolved, views, groups, requested_result_row_names,
                   request_data_features, warned, loop_state>>

\* the entity keys sent to the store for the table the loop is at
unique_of_current ==
    _get_unique_entities(grouped_refs[table_i][1], join_key_values,
                         entity_maps.entity_name_to_join_key_map)

\* a store that has not changed since the previous call answers the i-th
\* read of this call as it answered the i-th read of that one
answered_as_before(i, read_rows) ==
    \/ first.pc = "idle"
    \/ i <= Len(first.reads) /\ ~first.reads[i].failed /\ first.reads[i].read_rows = read_rows

\* a store that has not changed since the previous call fails the i-th read
\* of this call if it failed the i-th read of that one
fails_as_before(i) ==
    \/ first.pc = "idle"
    \/ i <= Len(first.reads) /\ first.reads[i].failed

\* lines 1718-1742: one iteration of the loop over grouped_refs, the store
\* answering the read
ReadTable ==
    /\ pc = "tables"
    /\ table_i <= Len(grouped_refs)
    /\ \E table \in {grouped_refs[table_i][1]},
          requested_features \in {grouped_refs[table_i][2]},
          u \in {unique_of_current} :
           IF u.err # None
           THEN /\ Fail(u.err)
                /\ UNCHANGED <<response, origin, loop_state>>
           ELSE \E store \in [Range(u.val.unique_entities) -> BackendRows(requested_features)] :
                 \E read_rows \in
                           {[k \in 1..Len(u.val.unique_entities) |->
                               online_read_row(table, u.val.unique_entities[k],
                                               store[u.val.unique_entities[k]])]} :
                   LET feature_data == _read_from_online_store(read_rows, requested_features)
                   IN  /\ answered_as_before(table_i, read_rows)
                       /\ response' =
                               _populate_response_from_feature_data(
                                   feature_data, u.val.indexes, response,
                                   full_feature_names, requested_features, table)
                       /\ origin' = origin \o
                               [i \in 1..Len(requested_features) |->
                                   [kind |-> "table", view |-> table.name,
                                    feature |-> requested_features[i]]]
                       /\ idxs' = u.val.indexes
                       /\ table_entity_values' = u.val.unique_entities
                       /\ reads' = Append(reads,
                               [table |-> table.name,
                                entity_keys |-> u.val.unique_entities,
                                indexes |-> u.val.indexes,
                                requested_features |-> requested_features,
                                failed |-> FALSE,
                                read_rows |-> read_rows])
                       /\ table_i' = table_i + 1
                       /\ UNCHANGED <<pc, err>>
    /\ UNCHANGED <<apply_state, other_state, first, args, resolved, views, groups, rows_state>>

\* Provider.online_read raises and the loop goes on to the next table
OnlineReadSkipsTable ==
    /\ pc = "tables"
    /\ table_i <= Len(grouped_refs)
    /\ unique_of_current.err = None
    /\ idxs' = unique_of_current.val.indexes
    /\ table_entity_values' = unique_of_current.val.unique_entities
    /\ reads' = Append(reads,
           [table |-> grouped_refs[table_i][1].name,
            entity_keys |-> unique_of_current.val.unique_entities,
            indexes |-> unique_of_current.val.indexes,
            requested_features |-> grouped_refs[table_i][2],
            failed |-> TRUE,
            read_rows |-> <<>>])
    /\ table_i' = table_i + 1
    /\ UNCHANGED <<apply_state, other_state, first, pc, err, args, resolved, views, groups, rows_state, response, origin>>

\* line 1950: Provider.online_read raises
OnlineReadRaises ==
    /\ pc = "tables"
    /\ table_i <= Len(grouped_refs)
    /\ unique_of_current.err = None
    /\ fails_as_before(table_i)
    /\ Fail("BackendUnavailable")
    /\ idxs' = unique_of_current.val.indexes
    /\ table_entity_values' = unique_of_current.val.unique_entities
    /\ reads' = Append(reads,
           [table |-> grouped_refs[table_i][1].name,
            entity_keys |-> unique_of_current.val.unique_entities,
            indexes |-> unique_of_current.val.indexes,
            requested_features |-> grouped_refs[table_i][2],
            failed |-> TRUE,
            read_rows |-> <<>>])
    /\ UNCHANGED <<apply_state, other_state, first, args, resolved, views, groups, rows_state, response, origin, table_i>>

\* lines 1744-1750: the computed features
Augment ==
    /\ pc = "tables"
    /\ table_i > Len(grouped_refs)
    /\ response' =
           IF Len(grouped_odfv_refs) > 0
           THEN _augment_response_with_on_demand_transforms(
                    response, feature_refs, requested_on_demand_feature_views,
                    full_feature_names)
           ELSE response
    /\ origin' = origin \o
           [i \in 1..(Len(response'.feature_names) - Len(response.feature_names)) |->
               [kind |-> "odfv", view |-> NoName,
                feature |-> response'.feature_names[Len(response.feature_names) + i]]]
    /\ pc' = "drop"
    /\ UNCHANGED <<apply_state, other_state, first, err, args, resolved, views, groups, rows_state, loop_state>>

\* lines 1752-1755: the final trim, and the response is returned
Drop ==
    /\ pc = "drop"
    /\ response' = _drop_unneeded_columns(response, requested_result_row_names)
    /\ origin' = SelectIdx(origin,
                           needed_feature_indices(response, requested_result_row_names))
    /\ pc' = "done"
    /\ UNCHANGED <<apply_state, other_state, first, err, args, resolved, views, groups, rows_state, loop_state>>

Next ==
    \/ Call
    \/ GetFeatures
    \/ EntityValues
    \/ ValidateFeatureRefs
    \/ GroupFeatureRefs
    \/ EntityRows
    \/ Populate
    \/ ReadTable
    \/ OnlineReadRaises
    \/ Augment
    \/ Drop

Spec == Init /\ [][Next]_vars

\* the values a caller of _get_online_features sends for the join key when
\* it passes Value protos: 64-bit and 32-bit integers
TypedKeyVals == {Val(INT64_VAL, 1), Val(INT32_VAL, 1), Val(INT64_VAL, 2)}

\* batches of Value protos, as columns: the join key, with or without the
\* request field of the computed table
TypedEntityValues ==
    UNION {{<< <<driver.join_key, keys>> >>,
            << <<driver.join_key, keys>>,
               <<req, [r \in 1..Len(keys) |-> Val(INT64_VAL, 30 + r)]>> >>} :
               keys \in UNION {[1..n -> TypedKeyVals] : n \in 1..MaxRows}}

TypedRequests ==
    {[features |-> FeatureList(f), entity_values |-> ev] :
        f \in {<<Ref(fvA.name, amount)>>,
               <<Ref(fvB.name, avg_rate), Ref(fvA.name, rate)>>,
               <<Ref(od.name, pct)>>},
        ev \in TypedEntityValues}

\* a caller that holds Value protos (a feature server) calls
\* _get_online_features with native_entity_values=False
CallTyped ==
    /\ pc = "idle"
    /\ \E request \in TypedRequests, full \in BOOLEAN :
          /\ features' = request.features
          /\ entity_values' = request.entity_values
          /\ full_feature_names' = full
    /\ native_entity_values' = FALSE
    /\ pc' = "get_features"
    /\ UNCHANGED <<apply_state, other_state, first, err, entity_rows, resolved, views, groups, rows_state, response,
                   origin, loop_state>>

NextTyped ==
    \/ CallTyped
    \/ GetFeatures
    \/ EntityValues
    \/ ValidateFeatureRefs
    \/ GroupFeatureRefs
    \/ EntityRows
    \/ Populate
    \/ ReadTable
    \/ OnlineReadRaises
    \/ Augment
    \/ Drop

SpecTyped == Init /\ [][NextTyped]_vars

\* the caller, who has the outcome of a call, calls get_online_features once
\* more with the same arguments: the rows are turned into columns again and
\* _get_online_features starts afresh
CallAgain ==
    /\ pc \in {"done", "error"}
    /\ first.pc = "idle"
    /\ first' = [pc |-> pc, err |-> err, response |-> response, origin |-> origin,
                 groups |-> groups, reads |-> reads]
    /\ IF columnar(entity_rows).err # None
       THEN Fail(columnar(entity_rows).err) /\ entity_values' = <<>>
       ELSE /\ entity_values' = columnar(entity_rows).val
            /\ pc' = "get_features"
            /\ err' = None
    /\ feature_refs' = <<>>
    /\ requested_feature_views' = <<>>
    /\ requested_request_feature_views' = <<>>
    /\ requested_on_demand_feature_views' = <<>>
    /\ entity_proto_values' = <<>>
    /\ num_rows' = 0
    /\ collided' = <<>>
    /\ grouped_refs' = <<>>
    /\ grouped_odfv_refs' = <<>>
    /\ grouped_request_fv_refs' = <<>>
    /\ requested_result_row_names' = {}
    /\ join_key_values' = <<>>
    /\ request_data_features' = <<>>
    /\ warned' = FALSE
    /\ response' = EmptyResponse
    /\ origin' = <<>>
    /\ table_i' = 1
    /\ idxs' = <<>>
    /\ table_entity_values' = <<>>
    /\ reads' = <<>>
    /\ UNCHANGED <<apply_state, other_state, features, entity_rows, full_feature_names,
                   native_entity_values>>

\* the first call of a caller that will call again
CallFirst == CallWith(RepeatedRequests)

NextTwice ==
    \/ CallFirst
    \/ GetFeatures
    \/ EntityValues
    \/ ValidateFeatureRefs
    \/ GroupFeatureRefs
    \/ EntityRows
    \/ Populate
    \/ ReadTable
    \/ OnlineReadRaises
    \/ Augment
    \/ Drop
    \/ CallAgain

\* a caller that repeats its call once, the registry and the store unchanged
SpecTwice == Init /\ [][NextTwice]_vars

(***************************************************************************)
(* FeatureStore.apply                                                      *)
(***************************************************************************)
\* str.lower() of a token of a name
LowerToken(t) ==
    CASE t = "fvA" -> "fva" [] t = "FVA" -> "fva" [] t = "fvB" -> "fvb" [] OTHER -> t

\* str.lower()
Lower(s) == [i \in 1..Len(s) |-> LowerToken(s[i])]

\* an object given to apply: its class, its name, the data source it brings
\* along (batch_source of a view, request source of a computed table) and
\* whether it declares a schema
FeastObject(kind, name, source, schema) ==
    [kind |-> kind, name |-> name, source |-> source, schema |-> schema]

\* the objects a caller registers: an entity, two views whose names differ
\* by case only, a computed table, a stream view without a schema, a service
ObjectsToApply ==
    <<FeastObject("Entity", driver.name, NoName, TRUE),
      FeastObject("FeatureView", fvA.name, Name("source_a"), TRUE),
      FeastObject("FeatureView", Name("FVA"), Name("source_b"), TRUE),
      FeastObject("OnDemandFeatureView", od.name, Name("request_source"), TRUE),
      FeastObject("StreamFeatureView", Name("sfv"), Name("source_a"), FALSE),
      FeastObject("FeatureService", origin_service.name, NoName, TRUE)>>

\* the objects a caller removes
ObjectsToDelete ==
    <<FeastObject("Entity", driver.name, NoName, TRUE),
      FeastObject("FeatureView", fvB.name, Name("source_b"), TRUE),
      FeastObject("FeatureService", stale_service.name, NoName, TRUE)>>

\* the lists of at most n objects of a list
ListsWithin(universe, n) ==
    {SelectIdx(universe, S) :
        S \in {T \in SUBSET (1..Len(universe)) : Cardinality(T) <= n}}

\* [ob for ob in objects if isinstance(ob, kind)]
OfKind(objects, kind) == SelectSeq(objects, LAMBDA ob : ob.kind = kind)

\* lines 805-851: the objects of the call, by class
entities_to_update ==
    Append(OfKind(apply_args.objects, "Entity"),
           FeastObject("Entity", DUMMY_ENTITY_NAME, NoName, TRUE))
views_to_update == OfKind(apply_args.objects, "FeatureView")
sfvs_to_update == OfKind(apply_args.objects, "StreamFeatureView")
request_views_to_update == OfKind(apply_args.objects, "RequestFeatureView")
odfvs_to_update == OfKind(apply_args.objects, "OnDemandFeatureView")
services_to_update == OfKind(apply_args.objects, "FeatureService")
validation_references_to_update == OfKind(apply_args.objects, "ValidationReference")

\* lines 822-842: the data sources given and those the views bring along
data_sources_set_to_update(objects) ==
    {ob.name : ob \in Range(OfKind(objects, "DataSource"))}
    \cup {ob.source : ob \in Range(OfKind(objects, "FeatureView"))
                            \cup Range(OfKind(objects, "StreamFeatureView"))
                            \cup Range(OfKind(objects, "RequestFeatureView"))
                            \cup Range(OfKind(objects, "OnDemandFeatureView"))}

\* _validate_feature_views: the names are unique, whatever their case
_validate_feature_views(feature_views) ==
    IF \E i, j \in 1..Len(feature_views) :
           i < j /\ Lower(feature_views[i].name) = Lower(feature_views[j].name)
    THEN Raise("ValueError")
    ELSE Ok(<<>>)

\* FeatureStore._validate_all_feature_views
_validate_all_feature_views ==
    _validate_feature_views(views_to_update \o odfvs_to_update
                            \o request_views_to_update \o sfvs_to_update)

\* FeatureStore._make_inferences, the inference helpers having returned
_make_inferences ==
    IF \E i \in 1..Len(sfvs_to_update) : ~sfvs_to_update[i].schema
    THEN Raise("ValueError")
    ELSE Ok(<<>>)

\* one call of a method of self._registry
RegistryCall(call, name, commit) == [call |-> call, name |-> name, commit |-> commit]

\* a call of the method for every object of a list
CallsFor(call, objects) ==
    [i \in 1..Len(objects) |-> RegistryCall(call, objects[i].name, FALSE)]

\* lines 866-882: the calls that add the objects to the registry
calls_to_update ==
    [i \in 1..Len(data_sources_to_update) |->
        RegistryCall("apply_data_source", data_sources_to_update[i], FALSE)]
    \o CallsFor("apply_feature_view",
                views_to_update \o odfvs_to_update \o request_views_to_update
                \o sfvs_to_update)
    \o CallsFor("apply_entity", entities_to_update)
    \o CallsFor("apply_feature_service", services_to_update)
    \o CallsFor("apply_validation_reference", validation_references_to_update)

\* lines 884-942: the calls that delete objects, made only if not partial
calls_to_delete ==
    IF apply_args.partial THEN <<>>
    ELSE CallsFor("delete_data_source", OfKind(apply_args.objects_to_delete, "DataSource"))
         \o CallsFor("delete_entity", OfKind(apply_args.objects_to_delete, "Entity"))
         \o CallsFor("delete_feature_view",
                     OfKind(apply_args.objects_to_delete, "FeatureView")
                     \o OfKind(apply_args.objects_to_delete, "RequestFeatureView")
                     \o OfKind(apply_args.objects_to_delete, "OnDemandFeatureView")
                     \o OfKind(apply_args.objects_to_delete, "StreamFeatureView"))
         \o CallsFor("delete_feature_service",
                     OfKind(apply_args.objects_to_delete, "FeatureService"))
         \o CallsFor("delete_validation_reference",
                     OfKind(apply_args.objects_to_delete, "ValidationReference"))

staging_calls == calls_to_update \o calls_to_delete

ApplyFail(e) == apply_pc' = "error" /\ apply_err' = e

\* a caller calls apply; lines 805-849 sort the objects by class
Apply ==
    /\ apply_pc = "idle"
    /\ \E objects \in ListsWithin(ObjectsToApply, MaxObjects),
          objects_to_delete \in ListsWithin(ObjectsToDelete, 1),
          partial \in BOOLEAN :
          /\ apply_args' = [objects |-> objects, objects_to_delete |-> objects_to_delete,
                            partial |-> partial]
          /\ data_sources_to_update' \in Orderings(data_sources_set_to_update(objects))
    /\ apply_pc' = "validate"
    /\ UNCHANGED <<online_state, other_state, apply_err, apply_i, registry_log>>

\* lines 854-856
ValidateAllFeatureViews ==
    /\ apply_pc = "validate"
    /\ IF _validate_all_feature_views.err # None
       THEN ApplyFail(_validate_all_feature_views.err)
       ELSE apply_pc' = "infer" /\ UNCHANGED apply_err
    /\ UNCHANGED <<online_state, other_state, apply_args, data_sources_to_update, apply_i, registry_log>>

\* lines 857-864
MakeInferences ==
    /\ apply_pc = "infer"
    /\ IF _make_inferences.err # None
       THEN ApplyFail(_make_inferences.err)
       ELSE apply_pc' = "stage" /\ UNCHANGED apply_err
    /\ UNCHANGED <<online_state, other_state, apply_args, data_sources_to_update, apply_i, registry_log>>

\* lines 857-864: an inference helper raises
InferenceRaises ==
    /\ apply_pc = "infer"
    /\ ApplyFail("Exception")
    /\ UNCHANGED <<online_state, other_state, apply_args, data_sources_to_update, apply_i, registry_log>>

\* lines 866-942: the next call on the registry, with commit=False
StageChange ==
    /\ apply_pc = "stage"
    /\ apply_i <= Len(staging_calls)
    /\ registry_log' = Append(registry_log, staging_calls[apply_i])
    /\ apply_i' = apply_i + 1
    /\ UNCHANGED <<online_state, other_state, apply_pc, apply_err, apply_args, data_sources_to_update>>

\* lines 866-942: the next call on the registry raises
RegistryCallRaises ==
    /\ apply_pc = "stage"
    /\ apply_i <= Len(staging_calls)
    /\ ApplyFail("Exception")
    /\ UNCHANGED <<online_state, other_state, apply_args, data_sources_to_update, apply_i, registry_log>>

\* update_infra raises, apply goes on
UpdateInfraFailureIgnored ==
    /\ apply_pc = "stage"
    /\ apply_i > Len(staging_calls)
    /\ apply_pc' = "commit"
    /\ UNCHANGED <<online_state, other_state, apply_err, apply_args, data_sources_to_update, apply_i,
                   registry_log>>

\* lines 944-951: Provider.update_infra raises
UpdateInfraRaises ==
    /\ apply_pc = "stage"
    /\ apply_i > Len(staging_calls)
    /\ ApplyFail("Exception")
    /\ UNCHANGED <<online_state, other_state, apply_args, data_sources_to_update, apply_i, registry_log>>

\* lines 944-951: Provider.update_infra returns
UpdateInfra ==
    /\ apply_pc = "stage"
    /\ apply_i > Len(staging_calls)
    /\ registry_log' = Append(registry_log, RegistryCall("update_infra", NoName, FALSE))
    /\ apply_pc' = "commit"
    /\ UNCHANGED <<online_state, other_state, apply_err, apply_args, data_sources_to_update, apply_i>>

\* line 953: self._registry.commit()
Commit ==
    /\ apply_pc = "commit"
    /\ registry_log' = Append(registry_log, RegistryCall("commit", NoName, TRUE))
    /\ apply_pc' = "teardown"
    /\ UNCHANGED <<online_state, other_state, apply_err, apply_args, data_sources_to_update, apply_i>>

\* line 958: self._teardown_go_server(), and apply returns
TeardownGoServer ==
    /\ apply_pc = "teardown"
    /\ apply_pc' = "done"
    /\ UNCHANGED <<online_state, other_state, apply_err, apply_args, data_sources_to_update, apply_i,
                   registry_log>>

NextApply ==
    \/ Apply
    \/ ValidateAllFeatureViews
    \/ MakeInferences
    \/ InferenceRaises
    \/ StageChange
    \/ RegistryCallRaises
    \/ UpdateInfra
    \/ UpdateInfraRaises
    \/ Commit
    \/ TeardownGoServer

\* one call of apply
SpecApply == Init /\ [][NextApply]_vars

(***************************************************************************)
(* materialize and materialize_incremental                                 *)
(***************************************************************************)
\* utils.make_tzaware: a naive datetime is taken as UTC; the model's dates
\* are instants, so the instant is the date
make_tzaware(date) == date

\* FeatureView.most_recent_end_time: None without intervals
most_recent_end_time(intervals) ==
    IF Len(intervals) = 0 THEN [has |-> FALSE, val |-> 0]
    ELSE [has |-> TRUE,
          val |-> CHOOSE e \in {intervals[i].end_date : i \in 1..Len(intervals)} :
                      \A i \in 1..Len(intervals) : intervals[i].end_date <= e]

MaterializeFail(e) == mat_pc' = "error" /\ mat_err' = e

\* the call begins: the views are selected and the loop starts
begin_materialization(call_args) ==
    LET selected == _get_feature_views_to_materialize(call_args.feature_views)
    IN  /\ mat_args' = call_args
        /\ mat_calls' = mat_calls + 1
        /\ mat_log' = <<>>
        /\ mat_i' = 1
        /\ mat_interval' = NoInterval
        /\ intervals_before' = materialization_intervals
        /\ IF selected.err # None
           THEN MaterializeFail(selected.err) /\ feature_views_to_materialize' = <<>>
           ELSE /\ mat_pc' = "loop"
                /\ mat_err' = None
                /\ feature_views_to_materialize' =
                       [i \in 1..Len(selected.val) |->
                           [view |-> selected.val[i],
                            most_recent_end_time |->
                                most_recent_end_time(
                                    materialization_intervals[selected.val[i].name])]]

\* lines 1317-1331 of materialize: the check of the dates, the selection
Materialize ==
    /\ mat_pc \in {"idle", "done", "error"}
    /\ mat_calls < MaxCalls
    /\ \E start_date \in Dates, end_date \in Dates, names \in FeatureViewsArguments :
          LET call_args == [incremental |-> FALSE, start_date |-> start_date,
                            end_date |-> end_date, feature_views |-> names]
          IN  IF make_tzaware(start_date) > make_tzaware(end_date)
              THEN /\ MaterializeFail("ValueError")
                   /\ mat_args' = call_args
                   /\ mat_calls' = mat_calls + 1
                   /\ mat_log' = <<>>
                   /\ mat_i' = 1
                   /\ mat_interval' = NoInterval
                   /\ intervals_before' = materialization_intervals
                   /\ feature_views_to_materialize' = <<>>
              ELSE begin_materialization(call_args)
    /\ UNCHANGED <<online_state, apply_state, refresh_state, materialization_intervals>>

\* lines 1226-1234 of materialize_incremental: the selection
MaterializeIncremental ==
    /\ mat_pc \in {"idle", "done", "error"}
    /\ mat_calls < MaxCalls
    /\ \E end_date \in Dates, names \in FeatureViewsArguments :
          begin_materialization([incremental |-> TRUE, start_date |-> 0,
                                 end_date |-> end_date, feature_views |-> names])
    /\ UNCHANGED <<online_state, apply_state, refresh_state, materialization_intervals>>

\* lines 1237-1253 of materialize_incremental: the start date of a view
incremental_start_date(entry) ==
    IF entry.most_recent_end_time.has THEN Ok(entry.most_recent_end_time.val)
    ELSE IF ~entry.view.has_ttl THEN Raise("Exception")
    ELSE IF entry.view.ttl > 0 THEN Ok(utcnow - entry.view.ttl)
    ELSE Ok(utcnow - weeks_52)

\* the interval the loop materializes for the view it is at
interval_of_current ==
    IF mat_args.incremental
    THEN LET start_date == incremental_start_date(feature_views_to_materialize[mat_i])
         IN  IF start_date.err # None THEN start_date
             ELSE Ok([start_date |-> make_tzaware(start_date.val),
                      end_date |-> make_tzaware(mat_args.end_date)])
    ELSE Ok([start_date |-> make_tzaware(mat_args.start_date),
             end_date |-> make_tzaware(mat_args.end_date)])

MaterializationCall(call, name, interval, raised) ==
    [call |-> call, view |-> name, interval |-> interval, raised |-> raised]

InLoop == mat_pc = "loop" /\ mat_i <= Len(feature_views_to_materialize)

\* lines 1237-1253: materialize_incremental finds no start date for the view
NoStartDate ==
    /\ InLoop
    /\ interval_of_current.err # None
    /\ MaterializeFail(interval_of_current.err)
    /\ UNCHANGED <<online_state, apply_state, refresh_state, mat_args, feature_views_to_materialize,
                   mat_i, mat_interval, mat_log, materialization_intervals, intervals_before,
                   mat_calls>>

\* lines 1267-1275 and 1343-1351: provider.materialize_single_feature_view
\* returns
MaterializeSingleFeatureView ==
    /\ InLoop
    /\ interval_of_current.err = None
    /\ mat_interval' = interval_of_current.val
    /\ mat_log' = Append(mat_log,
           MaterializationCall("materialize_single_feature_view",
               feature_views_to_materialize[mat_i].view.name, interval_of_current.val, FALSE))
    /\ mat_pc' = "record"
    /\ UNCHANGED <<online_state, apply_state, refresh_state, mat_err, mat_args,
                   feature_views_to_materialize, mat_i, materialization_intervals,
                   intervals_before, mat_calls>>

\* the provider raises, and the interval is recorded all the same
ProviderRaisesAfterRecording ==
    /\ InLoop
    /\ interval_of_current.err = None
    /\ mat_interval' = interval_of_current.val
    /\ mat_log' = Append(mat_log,
           MaterializationCall("materialize_single_feature_view",
               feature_views_to_materialize[mat_i].view.name, interval_of_current.val, TRUE))
    /\ materialization_intervals' =
           [materialization_intervals EXCEPT
               ![feature_views_to_materialize[mat_i].view.name] =
                   Append(@, interval_of_current.val)]
    /\ MaterializeFail("ProviderError")
    /\ UNCHANGED <<online_state, apply_state, refresh_state, mat_args, feature_views_to_materialize,
                   mat_i, intervals_before, mat_calls>>

\* lines 1267-1275 and 1343-1351: provider.materialize_single_feature_view
\* raises
ProviderRaises ==
    /\ InLoop
    /\ interval_of_current.err = None
    /\ mat_interval' = interval_of_current.val
    /\ mat_log' = Append(mat_log,
           MaterializationCall("materialize_single_feature_view",
               feature_views_to_materialize[mat_i].view.name, interval_of_current.val, TRUE))
    /\ MaterializeFail("ProviderError")
    /\ UNCHANGED <<online_state, apply_state, refresh_state, mat_args, feature_views_to_materialize,
                   mat_i, materialization_intervals, intervals_before, mat_calls>>

\* lines 1277-1282 and 1353-1358: Registry.apply_materialization records
\* the interval, and the loop goes on
ApplyMaterialization ==
    /\ mat_pc = "record"
    /\ materialization_intervals' =
           [materialization_intervals EXCEPT
               ![feature_views_to_materialize[mat_i].view.name] = Append(@, mat_interval)]
    /\ mat_log' = Append(mat_log,
           MaterializationCall("apply_materialization",
               feature_views_to_materialize[mat_i].view.name, mat_interval, FALSE))
    /\ mat_i' = mat_i + 1
    /\ mat_pc' = "loop"
    /\ UNCHANGED <<online_state, apply_state, refresh_state, mat_err, mat_args,
                   feature_views_to_materialize, mat_interval, intervals_before, mat_calls>>

\* lines 1277-1282 and 1353-1358: Registry.apply_materialization raises
ApplyMaterializationRaises ==
    /\ mat_pc = "record"
    /\ mat_log' = Append(mat_log,
           MaterializationCall("apply_materialization",
               feature_views_to_materialize[mat_i].view.name, mat_interval, TRUE))
    /\ MaterializeFail("RegistryError")
    /\ UNCHANGED <<online_state, apply_state, refresh_state, mat_args, feature_views_to_materialize,
                   mat_i, mat_interval, materialization_intervals, intervals_before, mat_calls>>

\* the loop is over and the call returns
MaterializeReturns ==
    /\ mat_pc = "loop"
    /\ mat_i > Len(feature_views_to_materialize)
    /\ mat_pc' = "done"
    /\ UNCHANGED <<online_state, apply_state, refresh_state, mat_err, mat_args,
                   feature_views_to_materialize, mat_i, mat_interval, mat_log,
                   materialization_intervals, intervals_before, mat_calls>>

NextMaterialize ==
    \/ Materialize
    \/ MaterializeIncremental
    \/ NoStartDate
    \/ MaterializeSingleFeatureView
    \/ ProviderRaises
    \/ ApplyMaterialization
    \/ ApplyMaterializationRaises
    \/ MaterializeReturns

SpecMaterialize == Init /\ [][NextMaterialize]_vars

(***************************************************************************)
(* refresh_registry, called by several threads, and the registry lookups   *)
(* of a concurrent get_online_features                                     *)
(***************************************************************************)
\* the Registry object a call of refresh_registry constructs
new_registry == CHOOSE id \in RegistryIds :
                    /\ ~registries[id].constructed
                    /\ \A other \in RegistryIds : ~registries[other].constructed => id <= other

\* refresh_registry that assigns self._registry before the refresh
RefreshRegistryInPlace(t) ==
    /\ refresh_pc[t] \in {"idle", "done", "failed"}
    /\ \E id \in RegistryIds : ~registries[id].constructed
    /\ registries' = [registries EXCEPT ![new_registry].constructed = TRUE]
    /\ local_registry' = [local_registry EXCEPT ![t] = new_registry]
    /\ store_registry' = new_registry
    /\ refresh_err' = [refresh_err EXCEPT ![t] = None]
    /\ refresh_pc' = [refresh_pc EXCEPT ![t] = "fetching"]
    /\ UNCHANGED <<online_state, apply_state, materialize_state, remote_version, reader_pc,
                   lookup_plan, lookups>>

\* lines 185-187: a thread calls refresh_registry, which constructs a
\* Registry and calls its refresh, which retrieves the registry from the
\* remote registry store
RefreshRegistry(t) ==
    /\ refresh_pc[t] \in {"idle", "done", "failed"}
    /\ \E id \in RegistryIds : ~registries[id].constructed
    /\ registries' = [registries EXCEPT ![new_registry].constructed = TRUE]
    /\ local_registry' = [local_registry EXCEPT ![t] = new_registry]
    /\ refresh_err' = [refresh_err EXCEPT ![t] = None]
    /\ refresh_pc' = [refresh_pc EXCEPT ![t] = "fetching"]
    /\ UNCHANGED <<online_state, apply_state, materialize_state, store_registry, remote_version,
                   reader_pc, lookup_plan, lookups>>

\* line 187: registry.refresh returns, the Registry caches what the remote
\* store holds
FetchReturns(t) ==
    /\ refresh_pc[t] = "fetching"
    /\ registries' = [registries EXCEPT ![local_registry[t]].refreshed = TRUE,
                                        ![local_registry[t]].version = remote_version]
    /\ refresh_pc' = [refresh_pc EXCEPT ![t] = "fetched"]
    /\ UNCHANGED <<online_state, apply_state, materialize_state, refresh_err, local_registry,
                   store_registry, remote_version, reader_pc, lookup_plan, lookups>>

\* line 187: registry.refresh raises, and refresh_registry with it
FetchRaises(t) ==
    /\ refresh_pc[t] = "fetching"
    /\ refresh_err' = [refresh_err EXCEPT ![t] = "RegistryFetchError"]
    /\ refresh_pc' = [refresh_pc EXCEPT ![t] = "failed"]
    /\ UNCHANGED <<online_state, apply_state, materialize_state, local_registry, registries,
                   store_registry, remote_version, reader_pc, lookup_plan, lookups>>

\* line 189: self._registry = registry
AssignRegistry(t) ==
    /\ refresh_pc[t] = "fetched"
    /\ store_registry' = local_registry[t]
    /\ refresh_pc' = [refresh_pc EXCEPT ![t] = "done"]
    /\ UNCHANGED <<online_state, apply_state, materialize_state, refresh_err, local_registry,
                   registries, remote_version, reader_pc, lookup_plan, lookups>>

\* somebody applies a change to the remote registry store
RemoteRegistryChanges ==
    /\ remote_version < MaxVersion
    /\ remote_version' = remote_version + 1
    /\ UNCHANGED <<online_state, apply_state, materialize_state, refresh_pc, refresh_err,
                   local_registry, registries, store_registry, reader_pc, lookup_plan, lookups>>

\* a thread calls get_online_features: its registry lookups are to come
BeginLookups ==
    /\ reader_pc = "idle"
    /\ \E with_service \in BOOLEAN, entity_lookups \in 1..2 :
          lookup_plan' = LookupsOf(with_service, entity_lookups)
    /\ reader_pc' = "lookups"
    /\ UNCHANGED <<online_state, apply_state, materialize_state, refresh_pc, refresh_err,
                   local_registry, registries, store_registry, remote_version, lookups>>

\* lines 497, 2150-2169, 1781 and 1787: one lookup, on the Registry that
\* self._registry refers to at that moment
Lookup ==
    /\ reader_pc = "lookups"
    /\ lookups' = Append(lookups,
           [lookup |-> lookup_plan[Len(lookups) + 1],
            registry |-> store_registry,
            refreshed |-> registries[store_registry].refreshed,
            version |-> registries[store_registry].version])
    /\ reader_pc' = IF Len(lookups) + 1 = Len(lookup_plan) THEN "done" ELSE "lookups"
    /\ UNCHANGED <<online_state, apply_state, materialize_state, refresh_pc, refresh_err,
                   local_registry, registries, store_registry, remote_version, lookup_plan>>

NextRefresh ==
    \/ \E t \in Threads : RefreshRegistry(t)
    \/ \E t \in Threads : FetchReturns(t)
    \/ \E t \in Threads : FetchRaises(t)
    \/ \E t \in Threads : AssignRegistry(t)
    \/ RemoteRegistryChanges
    \/ BeginLookups
    \/ Lookup

SpecRefresh == Init /\ [][NextRefresh]_vars

(***************************************************************************)
(* Vocabulary of the properties                                            *)
(***************************************************************************)
\* N, the number of entity rows of the request
NumEntityRows == IF Len(entity_values) = 0 THEN 0 ELSE Len(entity_values[1][2])

Returned == pc = "done"

\* the validation of the references has passed
PassedValidation == pc \in {"group", "entity_rows", "populate", "tables", "drop", "done"}

ViewOfRef(ref) == Split(ref)[1]
FeatureOfRef(ref) == Split(ref)[2]

\* the output name of a reference: the bare feature name, or table__feature
OutputName(ref) ==
    IF full_feature_names
    THEN Qualified(ViewOfRef(ref), FeatureOfRef(ref))
    ELSE FeatureOfRef(ref)

RequestedOutputNames == {OutputName(feature_refs[i]) : i \in 1..Len(feature_refs)}

ReturnedNames == Range(response.feature_names)

RequestedViewNames == {ViewOfRef(feature_refs[i]) : i \in 1..Len(feature_refs)}

RequestedOnDemandViews ==
    {o \in Range(registry_on_demand_feature_views) : o.name \in RequestedViewNames}

RequestedRequestViews ==
    {v \in Range(registry_request_feature_views) : v.name \in RequestedViewNames}

\* the request fields that the requested computed tables take as inputs
ComputedTableInputs == UNION {Range(o.request_data_schema) : o \in RequestedOnDemandViews}

\* the features of the requested request tables
RequestTableFeatures == UNION {Range(v.projection.features) : v \in RequestedRequestViews}

SuppliedColumns == Range(DictKeys(entity_values))

\* the join key a supplied entity column stands for: an entity's name stands
\* for the entity's join key, a join key or its alias for itself
JoinKeyOfColumn(c) ==
    IF \E e \in Range(registry_entities) : e.name = c
    THEN (CHOOSE e \in Range(registry_entities) : e.name = c).join_key
    ELSE c

\* the result names the code computes from the references: table__feature,
\* and in bare mode what follows the last "__" of table__feature
ResultNamesOfRefs ==
    {IF full_feature_names
     THEN Replace(feature_refs[i])
     ELSE RPartitionLast(Replace(feature_refs[i])) : i \in 1..Len(feature_refs)}

\* two positions of the reference list that collide in the naming mode
CollidingPair(i, j) ==
    /\ i # j
    /\ IF full_feature_names
       THEN feature_refs[i] = feature_refs[j]
       ELSE FeatureOfRef(feature_refs[i]) = FeatureOfRef(feature_refs[j])

Collides == \E i, j \in 1..Len(feature_refs) : CollidingPair(i, j)

CollidingRefs ==
    {feature_refs[i] : i \in {k \in 1..Len(feature_refs) :
                                 \E j \in 1..Len(feature_refs) : CollidingPair(k, j)}}

\* the vectors of the response that were fetched from a standard table
TableVectors == {i \in 1..Len(origin) : origin[i].kind = "table"}

ViewNamed(name) == IndexGet(requested_feature_views, name)

\* the column of the entity rows that carries a join key of a table: the
\* join key itself, or the alias the table's projection gives it
ColumnOfJoinKey(view_name, k) ==
    IF DictHas(join_key_values, k)
    THEN k
    ELSE DictGet(ViewNamed(view_name).projection.join_key_map, k)

\* the composite key of row r (1-based) for a table: the row's value of each
\* join key of the table's entities
KeyOfRow(view_name, r) ==
    LET keys == {get_entity(e).join_key : e \in Range(ViewNamed(view_name).entities)}
    IN  [k \in keys |-> DictGet(join_key_values, ColumnOfJoinKey(view_name, k))[r]]

\* the read of a table that the store answered
ReadOf(view_name) ==
    reads[CHOOSE k \in 1..Len(reads) : reads[k].table = view_name /\ ~reads[k].failed]

\* the entity key sent to the store is the composite key of row r
IsKeyOfRow(view_name, entity_key, r) ==
    /\ {entity_key[p][1] : p \in 1..Len(entity_key)} = DOMAIN KeyOfRow(view_name, r)
    /\ \A p \in 1..Len(entity_key) :
           KeyOfRow(view_name, r)[entity_key[p][1]] = entity_key[p][2]

\* what the store answered for the key of row r
AnswerOf(view_name, r) ==
    LET rd == ReadOf(view_name)
    IN  rd.read_rows[CHOOSE k \in 1..Len(rd.entity_keys) :
                         IsKeyOfRow(view_name, rd.entity_keys[k], r)]

\* the answer for row r is a hit that lacks some requested feature
PartialHit(view_name, r) ==
    /\ AnswerOf(view_name, r).has_data
    /\ \E f \in Range(ReadOf(view_name).requested_features) :
           f \notin DOMAIN AnswerOf(view_name, r).feature_data

Rows == 1..NumEntityRows

(***************************************************************************)
(* Properties                                                              *)
(***************************************************************************)
\* C1: in every request of N entity rows, every feature vector of the
\* response, from the moment it is added up to the response that is
\* returned after the final trim, has exactly N values, N statuses and N
\* event timestamps.
C1_EveryVectorHasNRows ==
    pc \in {"tables", "drop", "done"} =>
        \A i \in 1..Len(response.results) :
            /\ Len(response.results[i].values) = NumEntityRows
            /\ Len(response.results[i].statuses) = NumEntityRows
            /\ Len(response.results[i].event_timestamps) = NumEntityRows

\* a returned response of three rows, with an echoed join key, a vector
\* fetched from a table and a computed vector
C1_Witness ==
    /\ Returned
    /\ NumEntityRows = 3
    /\ Len(response.results) >= 3
    /\ TableVectors # {}
    /\ \E i \in 1..Len(origin) : origin[i].kind = "odfv"

\* C2: for every table read and every batch of N rows, the index lists
\* returned by _get_unique_entities partition {0..N-1}: every row index is
\* in exactly one list, exactly once, and the list sizes sum to N.
C2_IndexListsPartitionRows ==
    Len(reads) > 0 =>
        /\ \A r \in 0..(NumEntityRows - 1) :
               Cardinality({<<g, p>> \in (1..Len(idxs)) \X (1..NumEntityRows) :
                               p <= Len(idxs[g]) /\ idxs[g][p] = r}) = 1
        /\ \A g \in 1..Len(idxs) : Range(idxs[g]) \subseteq 0..(NumEntityRows - 1)
        /\ Sum(idxs) = NumEntityRows

\* rows 0 and 2 share a key, row 1 has another
C2_Witness ==
    /\ Len(reads) > 0
    /\ NumEntityRows = 3
    /\ Len(idxs) = 2
    /\ \E g \in 1..Len(idxs) : idxs[g] = <<0, 2>>
    /\ \E g \in 1..Len(idxs) : idxs[g] = <<1>>

\* C3: a returned response has a feature vector under the output name of
\* every requested reference (the bare feature name in bare mode,
\* table__feature in qualified mode).
C3_EveryRequestedFeatureReturned ==
    Returned => RequestedOutputNames \subseteq ReturnedNames

\* C4 as stated: a returned response has no vector whose name is not the
\* output name of a requested reference; join keys and request data are not
\* returned.
C4_OnlyRequestedOutputNames ==
    Returned => ReturnedNames \subseteq RequestedOutputNames

\* C4 amended: every vector of a returned response is named by a result
\* name computed from a requested reference, by the join key of a supplied
\* entity column, or by a supplied column that is a feature of a requested
\* request table; a supplied request field that is only the input of a
\* computed table is not returned.
C4_OnlyResultNamesJoinKeysAndRequestFeatures ==
    Returned =>
        /\ ReturnedNames \subseteq
               ResultNamesOfRefs
               \cup {JoinKeyOfColumn(c) :
                        c \in SuppliedColumns \ (ComputedTableInputs \cup RequestTableFeatures)}
               \cup (SuppliedColumns \cap RequestTableFeatures)
        /\ \A c \in (SuppliedColumns \cap ComputedTableInputs) :
               c \notin (RequestTableFeatures \cup ResultNamesOfRefs) => c \notin ReturnedNames

\* the join key is returned, the request field of the computed table is not
C4_Witness ==
    /\ Returned
    /\ driver.join_key \in ReturnedNames
    /\ driver.join_key \notin RequestedOutputNames
    /\ req \in SuppliedColumns
    /\ req \notin ReturnedNames
    /\ RequestedOnDemandViews # {}

\* C5: when a feature of a computed table is requested, every feature of
\* each of its source tables is read from the store, and a vector fetched
\* from a source table is in the returned response only if the caller
\* requested that table's feature; in both naming modes.
C5_SourceFeaturesReadButNotReturned ==
    Returned =>
        \A o \in RequestedOnDemandViews :
            \A q \in 1..Len(o.source_feature_view_projections) :
                LET source == o.source_feature_view_projections[q]
                IN  /\ \E k \in 1..Len(reads) :
                           /\ reads[k].table = source.name
                           /\ Range(source.features) \subseteq Range(reads[k].requested_features)
                    /\ \A i \in TableVectors :
                           origin[i].view = source.name =>
                               Ref(origin[i].view, origin[i].feature) \in Range(feature_refs)

\* C6: no two feature vectors of a returned response share an output name.
C6_OutputNamesUnique ==
    Returned =>
        \A i, j \in 1..Len(response.feature_names) :
            i # j => response.feature_names[i] # response.feature_names[j]

\* C7: _validate_feature_refs raises FeatureNameCollisionError exactly when
\* two requested references have the same bare feature name in bare mode, or
\* are the same table:feature reference in qualified mode, and the error
\* lists every colliding reference; a request for one feature name of two
\* tables that returns in qualified mode returns both qualified names.
C7_CollisionRaisedExactlyOnDuplicates ==
    /\ err = "FeatureNameCollisionError" =>
           Collides /\ Range(collided) = CollidingRefs
    /\ PassedValidation => ~Collides
    /\ (Returned /\ full_feature_names) =>
           \A i, j \in 1..Len(feature_refs) :
               (/\ FeatureOfRef(feature_refs[i]) = FeatureOfRef(feature_refs[j])
                /\ ViewOfRef(feature_refs[i]) # ViewOfRef(feature_refs[j])
                /\ {ViewOfRef(feature_refs[i]), ViewOfRef(feature_refs[j])}
                       \subseteq {v.name : v \in Range(registry_feature_views)})
               => {Replace(feature_refs[i]), Replace(feature_refs[j])} \subseteq ReturnedNames

\* one feature name of two tables, requested in bare mode, is refused
C7_Witness ==
    /\ err = "FeatureNameCollisionError"
    /\ ~full_feature_names
    /\ Len(feature_refs) = 2
    /\ ViewOfRef(feature_refs[1]) # ViewOfRef(feature_refs[2])
    /\ Range(collided) = Range(feature_refs)

\* C8: rows of the batch that carry the same composite key for a table have
\* the same value, status and event timestamp in every vector fetched from
\* that table.
C8_RowsOfOneKeyAgree ==
    \A i \in TableVectors :
        \A r1, r2 \in Rows :
            KeyOfRow(origin[i].view, r1) = KeyOfRow(origin[i].view, r2) =>
                /\ response.results[i].values[r1] = response.results[i].values[r2]
                /\ response.results[i].statuses[r1] = response.results[i].statuses[r2]
                /\ response.results[i].event_timestamps[r1]
                       = response.results[i].event_timestamps[r2]

\* the first and the third row share a key that the store holds, the second
\* row has another key and another value
C8_Witness ==
    /\ Returned
    /\ NumEntityRows = 3
    /\ \E i \in TableVectors :
           /\ KeyOfRow(origin[i].view, 1) = KeyOfRow(origin[i].view, 3)
           /\ KeyOfRow(origin[i].view, 1) # KeyOfRow(origin[i].view, 2)
           /\ response.results[i].statuses[1] = PRESENT
           /\ response.results[i].values[1] # response.results[i].values[2]

\* C9: on every row whose key the store reports as a miss, every vector
\* fetched from that table has status NOT_FOUND and a null value; on every
\* row whose key the store holds with the feature, the vector has status
\* PRESENT and the stored value, whatever the other rows' keys.
C9_MissIsNotFoundSiblingsPresent ==
    \A i \in TableVectors :
        \A r \in Rows :
            LET answer == AnswerOf(origin[i].view, r)
            IN  /\ ~answer.has_data =>
                       /\ response.results[i].statuses[r] = NOT_FOUND
                       /\ response.results[i].values[r] = null_value
                /\ (answer.has_data /\ origin[i].feature \in DOMAIN answer.feature_data) =>
                       /\ response.results[i].statuses[r] = PRESENT
                       /\ response.results[i].values[r] = answer.feature_data[origin[i].feature]

\* a returned response in which one row's key is a miss and another row's
\* key is held by the store
C9_Witness ==
    /\ Returned
    /\ \E i \in TableVectors :
           \E r1, r2 \in Rows :
               /\ ~AnswerOf(origin[i].view, r1).has_data
               /\ response.results[i].statuses[r1] = NOT_FOUND
               /\ AnswerOf(origin[i].view, r2).has_data
               /\ response.results[i].statuses[r2] = PRESENT

\* C10: on every row whose key the store holds without some of the requested
\* features, exactly the vectors of the missing features have NOT_FOUND and
\* a null value, and the vectors of the features found have PRESENT and
\* their value.
C10_PartialHitIsPerFeature ==
    \A i \in TableVectors :
        \A r \in Rows :
            PartialHit(origin[i].view, r) =>
                LET data == AnswerOf(origin[i].view, r).feature_data
                IN  IF origin[i].feature \in DOMAIN data
                    THEN /\ response.results[i].statuses[r] = PRESENT
                         /\ response.results[i].values[r] = data[origin[i].feature]
                    ELSE /\ response.results[i].statuses[r] = NOT_FOUND
                         /\ response.results[i].values[r] = null_value

\* two vectors of one table, one PRESENT and one NOT_FOUND on the same row
C10_Witness ==
    /\ Returned
    /\ \E i, j \in TableVectors :
           \E r \in Rows :
               /\ origin[i].view = origin[j].view
               /\ PartialHit(origin[i].view, r)
               /\ response.results[i].statuses[r] = PRESENT
               /\ response.results[j].statuses[r] = NOT_FOUND
               /\ response.results[j].values[r] = null_value

\* the reads of the request that the store failed
FailedReads == {k \in 1..Len(reads) : reads[k].failed}

\* C11: a store read that fails ends the request with the store's error: the
\* request is in its error state and never returns a response, the failed
\* read is the last read of the request, and no table is read twice.
C11_FailedReadAbortsRequest ==
    FailedReads # {} =>
        /\ pc = "error"
        /\ err = "BackendUnavailable"
        /\ FailedReads = {Len(reads)}
        /\ \A k \in 1..(Len(reads) - 1) : reads[k].table # reads[Len(reads)].table

\* the read of the second table fails after the first table was read and
\* its vectors were added to the response
C11_Witness ==
    /\ pc = "error"
    /\ err = "BackendUnavailable"
    /\ Len(reads) = 2
    /\ ~reads[1].failed
    /\ reads[2].failed
    /\ TableVectors # {}

\* every table of the registry, of any kind
AllViews ==
    Range(registry_feature_views) \cup Range(registry_on_demand_feature_views)
    \cup Range(registry_request_feature_views)

\* the reference names a feature of a table of the registry
RefResolvable(ref) ==
    \E v \in AllViews :
        v.name = ViewOfRef(ref) /\ FeatureOfRef(ref) \in Range(v.projection.features)

\* the column is a join key or the name of an entity of the registry, or the
\* alias that the projection of a view of the request gives a join key
KnownColumn(c) ==
    \/ \E e \in Range(registry_entities) : c = e.join_key \/ c = e.name
    \/ \E v \in Range(requested_feature_views) :
           \E i \in 1..Len(v.projection.join_key_map) : v.projection.join_key_map[i][2] = c

\* the request fields the request needs: the inputs of the requested
\* computed tables and the features of the requested request tables
NeededFields == ComputedTableInputs \cup RequestTableFeatures

MissingFields == NeededFields \ SuppliedColumns

\* the request has references, all of them resolvable and free of
\* collisions, and columns of one length
RefsAndBatchValid ==
    /\ Len(feature_refs) > 0
    /\ \A i \in 1..Len(feature_refs) : RefResolvable(feature_refs[i])
    /\ ~Collides
    /\ Len(entity_values) > 0
    /\ \A i \in 1..Len(entity_values) : Len(entity_values[i][2]) = NumEntityRows

\* the supplied columns that are not request data the request needs
EntityColumns == SuppliedColumns \ NeededFields

\* and its columns are needed fields, join keys or entity names
OtherwiseValid == RefsAndBatchValid /\ \A c \in EntityColumns : KnownColumn(c)

\* the steps before the entity rows have been examined
BeforeRequestDataCheck ==
    pc \in {"idle", "get_features", "entity_values", "validate_refs", "group", "entity_rows"}

\* C12: a request that lacks an input field of a requested computed table's
\* request schema, or a feature of a requested request table, never gets
\* past the check of the request data: it fails before anything is put in the
\* response, and when nothing else is wrong with the request the error is
\* RequestDataNotFoundInEntityRowsException.
C12_MissingRequestDataFails ==
    (MissingFields # {} /\ ~BeforeRequestDataCheck) =>
        /\ pc = "error"
        /\ response = EmptyResponse
        /\ reads = <<>>
        /\ OtherwiseValid => err = "RequestDataNotFoundInEntityRowsException"

\* a request for a computed feature and a request-table feature that
\* supplies the computed table's input but not the request table's feature
C12_Witness ==
    /\ pc = "error"
    /\ err = "RequestDataNotFoundInEntityRowsException"
    /\ OtherwiseValid
    /\ RequestedOnDemandViews # {}
    /\ req \in SuppliedColumns
    /\ MissingFields = {flag}

\* the column is the name of an entity and not a join key or an alias
BareEntityName(c) ==
    /\ \E e \in Range(registry_entities) : e.name = c
    /\ JoinKeyOfColumn(c) # c

\* C13: when the references and the batch are valid, a supplied column that
\* is not needed request data is accepted exactly when it is a join key, the
\* alias of a join key, or the name of an entity: the request gets past the
\* entity rows only if every such column is known, each column's values are
\* filed under its join key, a warning is issued exactly when a bare entity
\* name was used, and a column of any other name fails the request with
\* EntityNotFoundException before anything is put in the response.
C13_ColumnsAcceptedWhenKnown ==
    /\ pc \in {"populate", "tables", "drop", "done"} =>
           /\ \A c \in EntityColumns :
                  /\ KnownColumn(c)
                  /\ DictHas(join_key_values, JoinKeyOfColumn(c))
                  /\ DictGet(join_key_values, JoinKeyOfColumn(c))
                         = DictGet(entity_proto_values, c)
           /\ warned <=> \E c \in EntityColumns : BareEntityName(c)
    /\ err = "EntityNotFoundException" => \E c \in EntityColumns : ~KnownColumn(c)
    /\ ((\E c \in EntityColumns : ~KnownColumn(c)) /\ ~BeforeRequestDataCheck) =>
           /\ pc = "error"
           /\ response = EmptyResponse
           /\ RefsAndBatchValid => err = "EntityNotFoundException"

\* a request that names the entity instead of its join key returns, with
\* the warning, the join key column
C13_Witness ==
    /\ Returned
    /\ warned
    /\ driver.name \in SuppliedColumns
    /\ driver.join_key \notin SuppliedColumns
    /\ driver.join_key \in ReturnedNames
    /\ TableVectors # {}

\* the reference names a table of the registry, of any kind
TableKnown(ref) == \E v \in AllViews : v.name = ViewOfRef(ref)

\* the batch has columns, all of one length
BatchValid ==
    /\ Len(entity_values) > 0
    /\ \A i \in 1..Len(entity_values) : Len(entity_values[i][2]) = NumEntityRows

\* a request whose only fault is a reference to a table the registry lacks,
\* once the references have been through the grouping
OnlyFaultIsUnknownTable ==
    /\ \E i \in 1..Len(feature_refs) : ~TableKnown(feature_refs[i])
    /\ BatchValid
    /\ ~Collides
    /\ pc \notin {"idle", "get_features", "entity_values", "validate_refs", "group"}

\* the grouped list holds the reference's feature under the reference's table
InGroup(gr, ref) ==
    \E k \in 1..Len(gr) :
        /\ name_to_use(gr[k][1].projection) = ViewOfRef(ref)
        /\ FeatureOfRef(ref) \in Range(gr[k][2])

Ragged ==
    \E i, j \in 1..Len(entity_values) :
        Len(entity_values[i][2]) # Len(entity_values[j][2])

\* C15: a batch whose columns do not all have the same length is rejected by
\* the validation of the entity values with ValueError, nothing is put in the
\* response and the backend is never read; and a request that is past that
\* validation has columns that all have num_rows values.
C15_RaggedBatchRejected ==
    /\ (Ragged /\ pc \notin {"idle", "get_features", "entity_values"}) =>
           /\ pc = "error"
           /\ err = "ValueError"
           /\ response = EmptyResponse
           /\ reads = <<>>
    /\ pc \in {"validate_refs", "group", "entity_rows", "populate", "tables", "drop", "done"} =>
           \A i \in 1..Len(entity_proto_values) : Len(entity_proto_values[i][2]) = num_rows

\* a batch with one column shorter than another was rejected after its
\* values were converted
C15_Witness ==
    /\ pc = "error"
    /\ err = "ValueError"
    /\ Ragged
    /\ Len(feature_refs) > 0
    /\ Len(entity_proto_values) = 2
    /\ reads = <<>>

\* the request was made with a list that has no reference
EmptyFeatureList == ~features.service /\ Len(features.refs) = 0

\* C16: a request with an empty feature list ends in _get_features with
\* ValueError: no reference is resolved, nothing is put in the response and
\* the backend is never read.
C16_EmptyFeatureListRejected ==
    (EmptyFeatureList /\ pc \notin {"idle", "get_features"}) =>
        /\ pc = "error"
        /\ err = "ValueError"
        /\ feature_refs = <<>>
        /\ response = EmptyResponse
        /\ reads = <<>>

\* a request with an empty feature list and a batch of rows has failed with
\* ValueError
C16_Witness ==
    /\ EmptyFeatureList
    /\ pc = "error"
    /\ err = "ValueError"
    /\ Len(entity_values) > 0
    /\ NumEntityRows > 0
    /\ ~Ragged

\* the standard tables a request involves: those its references name and
\* those that the computed tables its references name declare as sources
InvolvedTables ==
    {ViewOfRef(feature_refs[i]) : i \in {k \in 1..Len(feature_refs) :
        InIndex(requested_feature_views, ViewOfRef(feature_refs[k]))}}
    \cup UNION {{v.source_feature_view_projections[p].name :
                    p \in 1..Len(v.source_feature_view_projections)} :
                v \in RequestedOnDemandViews}

\* the distinct composite keys the rows of the request have for a table
DistinctKeys(view_name) == {KeyOfRow(view_name, r) : r \in Rows}

PositionIn(requested_features, feature) ==
    CHOOSE f \in 1..Len(requested_features) : requested_features[f] = feature

\* C20: for every vector fetched from a table, every position p of the read
\* and every row index r of the index list of p, row r of the vector holds
\* the value, the status and the event timestamp that the store returned at
\* position p, and the key sent at position p is the composite key of row r;
\* the index lists cover every row, so each row holds the result for its own
\* key, in the order of the request.
C20_ScatterKeepsRowsAligned ==
    \A i \in TableVectors :
        LET rd == ReadOf(origin[i].view)
            f == PositionIn(rd.requested_features, origin[i].feature)
        IN  /\ \A p \in 1..Len(rd.indexes) :
                   \A d \in 1..Len(rd.indexes[p]) :
                       LET r == rd.indexes[p][d] + 1
                           returned == read_row_proto(rd.read_rows[p], rd.requested_features)
                       IN  /\ r \in Rows
                           /\ response.results[i].values[r] = returned.values[f]
                           /\ response.results[i].statuses[r] = returned.statuses[f]
                           /\ response.results[i].event_timestamps[r]
                                  = returned.event_timestamps[f]
                           /\ IsKeyOfRow(rd.table, rd.entity_keys[p], r)
            /\ \A r \in Rows :
                   \E p \in 1..Len(rd.indexes) : r - 1 \in Range(rd.indexes[p])

\* a returned response for three rows whose first and third row were read
\* at one position and whose second row at another, both held by the store
C20_Witness ==
    /\ Returned
    /\ NumEntityRows = 3
    /\ \E i \in TableVectors :
           LET rd == ReadOf(origin[i].view)
           IN  /\ Len(rd.indexes) = 2
               /\ \E p \in 1..2 : rd.indexes[p] = <<0, 2>>
               /\ rd.read_rows[1].has_data
               /\ rd.read_rows[2].has_data
               /\ response.results[i].statuses = <<PRESENT, PRESENT, PRESENT>>
               /\ response.results[i].values[1] # response.results[i].values[2]

\* the second of two identical calls has ended
SecondCallEnded == first.pc # "idle" /\ pc \in {"done", "error"}

Commits == {k \in 1..Len(registry_log) : registry_log[k].call = "commit"}
Staged == {k \in 1..Len(registry_log) : registry_log[k].call \notin {"commit", "update_infra"}}
InfraUpdates == {k \in 1..Len(registry_log) : registry_log[k].call = "update_infra"}

\* what holds of the calls apply has made so far
CommitOnceAfterUpdateInfra ==
    /\ \A k \in Staged : ~registry_log[k].commit
    /\ Cardinality(Commits) <= 1
    /\ \A c \in Commits :
           /\ \E u \in InfraUpdates : u < c
           /\ \A k \in Staged : k < c
           /\ Cardinality(Staged) = Len(staging_calls)
           /\ _validate_all_feature_views.err = None
           /\ _make_inferences.err = None
    /\ apply_pc = "done" => Cardinality(Commits) = 1
    /\ apply_pc = "error" => Commits = {}

\* C18: every change apply makes to the registry is staged with commit=False;
\* the registry is committed at most once, after every change was staged and
\* update_infra returned, and exactly once by an apply that returns; an
\* apply that fails, in validation, in inference, in a registry call or in
\* update_infra, has not committed and does nothing more.
C18_CommitOnceOnlyAfterUpdateInfra ==
    /\ []CommitOnceAfterUpdateInfra
    /\ [][apply_pc = "error" => UNCHANGED apply_state]_vars
    /\ [][Commits' # Commits => (apply_pc = "commit" /\ InfraUpdates # {})]_vars

\* an apply that registers two objects and deletes one has returned after
\* staging its changes, updating the infrastructure and one commit
C18_Witness ==
    /\ apply_pc = "done"
    /\ ~apply_args.partial
    /\ Len(apply_args.objects) = 2
    /\ Len(apply_args.objects_to_delete) = 1
    /\ Cardinality(Staged) >= 4
    /\ Cardinality(InfraUpdates) = 1
    /\ Cardinality(Commits) = 1
    /\ registry_log[Len(registry_log)].call = "commit"


\* the tables of the request whose store read has been answered, in the
\* order of the reads
TablesRead == [k \in 1..Len(reads) |-> reads[k].table]

\* the tables whose fetched vectors are in the response, one entry per vector
TablesScattered == [i \in 1..Cardinality(TableVectors) |->
                       origin[CHOOSE j \in TableVectors :
                                  Cardinality({h \in TableVectors : h < j}) = i - 1].view]

\* the store reads of the request that are still to come
ReadsOutstanding == pc = "tables" /\ table_i <= Len(grouped_refs)

\* C21 (as stated): within one request no fetched vector is in the response
\* while a store read of some table of the request is still to come: the
\* reads of all tables complete before the first scatter.
C21_NoScatterBeforeAllReads == ReadsOutstanding => TableVectors = {}

\* the vectors each answered read contributes, table by table
VectorsOfReads ==
    Flatten([k \in 1..Len(reads) |->
                IF reads[k].failed
                THEN <<>>
                ELSE [j \in 1..Len(reads[k].requested_features) |-> reads[k].table]])

\* C21 (amended): the tables are handled one at a time, in the order of
\* grouped_refs: the k-th read is the read of the k-th table, a table's
\* vectors are in the response exactly when its own read has been answered,
\* in the order of the reads, and as long as the loop runs every table before
\* the loop's position has been read and scattered and no table after it.
C21_ScatterFollowsOwnRead ==
    /\ \A k \in 1..Len(reads) : reads[k].table = grouped_refs[k][1].name
    /\ pc \in {"tables", "drop"} => TablesScattered = VectorsOfReads
    /\ pc = "tables" => Len(reads) = table_i - 1
    /\ pc = "tables" => \A k \in 1..Len(reads) : ~reads[k].failed

\* the first of two tables has been read and scattered, the read of the
\* second is still to come
C21_Witness ==
    /\ ReadsOutstanding
    /\ Len(grouped_refs) = 2
    /\ table_i = 2
    /\ TableVectors # {}
    /\ Len(reads) = 1

\* the vectors of the response that the computed tables appended
ComputedVectors == {i \in 1..Len(origin) : origin[i].kind = "odfv"}

\* the output names of the features requested from computed tables
RequestedComputedNames ==
    {OutputName(feature_refs[i]) :
        i \in {k \in 1..Len(feature_refs) :
                  \E o \in Range(requested_on_demand_feature_views) :
                      o.name = ViewOfRef(feature_refs[k])}}

\* some input vector of the computed tables lacks row r in the store
InputNotFound(r) ==
    \E i \in TableVectors : response.results[i].statuses[r] = NOT_FOUND

\* C24: once the computed features are appended, every vector a computed
\* table appended is a feature that was requested from a computed table (a
\* feature the table computes but the caller did not request is not
\* appended), and it has status PRESENT on every one of the N rows, also on
\* the rows whose input features the store did not find.
C24_ComputedFeaturesRequestedAndPresent ==
    pc \in {"drop", "done"} =>
        \A i \in ComputedVectors :
            /\ response.feature_names[i] \in RequestedComputedNames
            /\ Len(response.results[i].statuses) = NumEntityRows
            /\ \A r \in Rows : response.results[i].statuses[r] = PRESENT

\* the computed feature pct was appended, the table's other feature was not
\* requested, and on some row the store did not find the table's inputs
C24_Witness ==
    /\ pc = "drop"
    /\ ComputedVectors # {}
    /\ Ref(od.name, pct) \in Range(feature_refs)
    /\ Ref(od.name, share) \notin Range(feature_refs)
    /\ \E r \in Rows : InputNotFound(r)
    /\ \E r \in Rows : ~InputNotFound(r)

\* the request ended with the error of the request-data check
MissingRequestDataRaised == pc = "error" /\ err = "RequestDataNotFoundInEntityRowsException"

\* C26: a request fails with the missing-request-data error only if some
\* input field of a requested computed table or some feature of a requested
\* request table is absent from the caller's columns; a request that
\* supplies every needed field does not fail with it, also when one field
\* is needed by a computed table and by a request table.
C26_NoMissingRequestDataWhenSupplied == MissingRequestDataRaised => MissingFields # {}

\* the request has one of the faults that validation rejects: an empty
\* feature list, columns of unequal length, colliding feature names, a
\* reference to an unknown table, a column that is neither request data nor
\* a join key nor an entity name, a needed request field that is missing
ValidationFault ==
    \/ EmptyFeatureList
    \/ Ragged
    \/ Collides
    \/ \E i \in 1..Len(feature_refs) : ~TableKnown(feature_refs[i])
    \/ \E c \in EntityColumns : ~KnownColumn(c)
    \/ MissingFields # {}

\* the errors that only request validation raises
ValidationErrors ==
    {"FeatureNameCollisionError", "FeatureViewNotFoundException",
     "EntityNotFoundException", "RequestDataNotFoundInEntityRowsException"}

\* C28: a request with a validation fault (empty feature list, unequal
\* column lengths, feature name collision, unknown table, unknown entity
\* name, missing request data) never issues a store read, and a request that
\* ended with a validation error has issued none: validation fails before
\* the first read and puts nothing in the response.
C28_ValidationFailsBeforeAnyRead ==
    /\ ValidationFault => reads = <<>>
    /\ (pc = "error" /\ err \in ValidationErrors) =>
           /\ reads = <<>>
           /\ response = EmptyResponse
    /\ (ValidationFault /\ pc \notin {"idle", "get_features", "entity_values",
                                       "validate_refs", "group", "entity_rows"}) =>
           pc = "error"

\* a request for a standard table and a request table failed the last check
\* of validation, the check of the request data, without a read
C28_Witness ==
    /\ pc = "error"
    /\ err = "RequestDataNotFoundInEntityRowsException"
    /\ MissingFields # {}
    /\ Len(grouped_refs) > 0
    /\ Len(grouped_request_fv_refs) > 0
    /\ reads = <<>>

\* C29: the unique keys that _get_unique_entities returned for a read are
\* pairwise distinct: no composite key is sent to the store in two groups,
\* whatever the batch, also when it was passed as Value protos whose join
\* key column mixes kinds of equal sort key.
C29_UniqueKeysPairwiseDistinct ==
    \A k \in 1..Len(reads) :
        \A a, b \in 1..Len(reads[k].entity_keys) :
            reads[k].entity_keys[a] = reads[k].entity_keys[b] => a = b

\* the data the echo columns were made from
EchoData == request_data_features \o join_key_values

\* the i-th vector of the response holds what its name says: an echo column
\* the caller's values of that column, a fetched vector the store's answers
\* for that feature of that table, a computed vector the values of that
\* feature of a requested computed table
Labelled(i) ==
    LET name == response.feature_names[i]
        vector == response.results[i]
    IN  CASE origin[i].kind = "echo" ->
                 /\ name = origin[i].feature
                 /\ DictHas(EchoData, name)
                 /\ vector.values = DictGet(EchoData, name)
          [] origin[i].kind = "table" ->
                 /\ name = IF full_feature_names
                           THEN Qualified(name_to_use(ViewNamed(origin[i].view).projection),
                                          origin[i].feature)
                           ELSE origin[i].feature
                 /\ \A r \in Rows :
                        LET answer == AnswerOf(origin[i].view, r)
                            found == /\ answer.has_data
                                     /\ origin[i].feature \in DOMAIN answer.feature_data
                        IN  /\ found <=> vector.statuses[r] = PRESENT
                            /\ found => vector.values[r] = answer.feature_data[origin[i].feature]
          [] origin[i].kind = "odfv" ->
                 \E o \in RequestedOnDemandViews :
                     \E c \in 1..Len(o.projection.features) :
                         /\ name = IF full_feature_names
                                   THEN Qualified(name_to_use(o.projection),
                                                  o.projection.features[c])
                                   ELSE o.projection.features[c]
                         /\ \A r \in Rows : vector.values[r].val \div 100000 = c

\* the stage a vector was inserted at
StageOf(i) == CASE origin[i].kind = "echo" -> 1
                [] origin[i].kind = "table" -> 2
                [] origin[i].kind = "odfv" -> 3

\* the number of the read that fetched a vector
ReadNoOf(i) == CHOOSE k \in 1..Len(reads) : reads[k].table = origin[i].view /\ ~reads[k].failed

\* vector i was inserted before vector j
InsertedInOrder(i, j) ==
    /\ StageOf(i) <= StageOf(j)
    /\ (StageOf(i) = 2 /\ StageOf(j) = 2) =>
           /\ ReadNoOf(i) <= ReadNoOf(j)
           /\ ReadNoOf(i) = ReadNoOf(j) =>
                  PositionIn(reads[ReadNoOf(i)].requested_features, origin[i].feature)
                      < PositionIn(reads[ReadNoOf(j)].requested_features, origin[j].feature)

NamesLabelVectors ==
    /\ Len(response.feature_names) = Len(response.results)
    /\ Len(origin) = Len(response.results)
    /\ \A i \in 1..Len(response.results) : Labelled(i)
    /\ \A i, j \in 1..Len(response.results) : i < j => InsertedInOrder(i, j)

\* C30: at every point of the pipeline the list of feature names and the
\* list of vectors of the response have the same length and the i-th name
\* labels the i-th vector: an echo column holds the caller's values of that
\* column, the j-th vector appended for a table holds the store's data of
\* the j-th requested feature, a computed vector the values of the feature
\* it is named after; the vectors stay in the order of their insertion; and
\* the final trim removes from both lists the positions whose name was not
\* requested and keeps the others in order.
C30_NamesLabelVectors ==
    /\ []NamesLabelVectors
    /\ [][(pc = "drop" /\ pc' = "done") =>
            LET keep == {i \in 1..Len(response.feature_names) :
                            response.feature_names[i] \in requested_result_row_names}
            IN  /\ response'.feature_names = SelectIdx(response.feature_names, keep)
                /\ response'.results = SelectIdx(response.results, keep)]_vars

\* the trim removed a vector from the middle of a response with an echo
\* column, two fetched tables and a computed feature
C30_Witness ==
    /\ Returned
    /\ Len(response.results) >= 3
    /\ \E i \in 1..Len(origin) : origin[i].kind = "echo"
    /\ \E i \in 1..Len(origin) : origin[i].kind = "odfv"
    /\ Cardinality({origin[i].view : i \in TableVectors}) = 1
    /\ Len(reads) = 2

\* the calls of the log that recorded an interval
Recorded == SelectSeq(mat_log, LAMBDA c : c.call = "apply_materialization" /\ ~c.raised)

\* the intervals this call recorded for a view, in order
RecordedFor(name) ==
    LET of_view == SelectSeq(Recorded, LAMBDA c : c.view = name)
    IN  [i \in 1..Len(of_view) |-> of_view[i].interval]

\* the p-th call of the log is the call the loop makes at that point: the
\* provider's materialization of the view at position (p + 1) \div 2, then
\* the recording of that very view and interval
InLoopOrder(p) ==
    LET entry == feature_views_to_materialize[(p + 1) \div 2]
    IN  /\ mat_log[p].view = entry.view.name
        /\ IF p % 2 = 1
           THEN mat_log[p].call = "materialize_single_feature_view"
           ELSE /\ mat_log[p].call = "apply_materialization"
                /\ mat_log[p - 1].call = "materialize_single_feature_view"
                /\ ~mat_log[p - 1].raised
                /\ mat_log[p - 1].interval = mat_log[p].interval

\* the provider's materialization of the view the loop is at has raised
ProviderFailed ==
    /\ Len(mat_log) > 0
    /\ mat_log[Len(mat_log)].call = "materialize_single_feature_view"
    /\ mat_log[Len(mat_log)].raised

\* C25: materialize and materialize_incremental handle the selected views
\* one after another, in order: each view's interval is recorded in the
\* registry only by the call that follows the successful return of the
\* provider's materialization of that view, for that interval. A call that
\* raises is the last call of the run. When the provider fails on a view,
\* the views before it have their interval recorded and that view and the
\* views after it have none; the registry holds, for every view, the
\* intervals it held before plus those recorded. materialize with
\* start_date later than end_date fails with ValueError before any call on
\* the provider or the registry.
C25_IntervalRecordedAfterProviderSucceeds ==
    /\ Len(mat_log) <= 2 * Len(feature_views_to_materialize)
    /\ \A p \in 1..Len(mat_log) : InLoopOrder(p)
    /\ \A p \in 1..Len(mat_log) : mat_log[p].raised => (p = Len(mat_log) /\ mat_pc = "error")
    /\ [i \in 1..Len(Recorded) |-> Recorded[i].view]
           = [i \in 1..Len(Recorded) |-> feature_views_to_materialize[i].view.name]
    /\ ProviderFailed =>
           /\ mat_pc = "error"
           /\ Len(Recorded) = mat_i - 1
           /\ Len(Recorded) = (Len(mat_log) - 1) \div 2
    /\ mat_pc = "done" => Len(Recorded) = Len(feature_views_to_materialize)
    /\ \A name \in MaterializableNames :
           materialization_intervals[name] = intervals_before[name] \o RecordedFor(name)
    /\ (mat_calls > 0 /\ ~mat_args.incremental /\ mat_args.start_date > mat_args.end_date) =>
           /\ mat_pc = "error"
           /\ mat_err = "ValueError"
           /\ mat_log = <<>>

\* the provider failed on the second of three views: the first view has its
\* interval recorded, the second and the third have none
C25_Witness ==
    /\ ProviderFailed
    /\ Len(feature_views_to_materialize) = 3
    /\ mat_i = 2
    /\ Len(materialization_intervals[feature_views_to_materialize[1].view.name])
           = Len(intervals_before[feature_views_to_materialize[1].view.name]) + 1
    /\ materialization_intervals[feature_views_to_materialize[2].view.name]
           = intervals_before[feature_views_to_materialize[2].view.name]
    /\ materialization_intervals[feature_views_to_materialize[3].view.name]
           = intervals_before[feature_views_to_materialize[3].view.name]

\* the threads whose call of refresh_registry is retrieving the registry
Fetching == {t \in Threads : refresh_pc[t] = "fetching"}

\* C22: the refreshes of one store are mutually exclusive: at no time are
\* two threads both retrieving the registry.
C22_RefreshesMutuallyExclusive == Cardinality(Fetching) <= 1

\* the Registry object the store refers to is fully refreshed
PublishedIsRefreshed ==
    /\ registries[store_registry].constructed
    /\ registries[store_registry].refreshed

\* the store's Registry, and every Registry that answered a lookup, is fully
\* refreshed
RegistryAlwaysRefreshed ==
    PublishedIsRefreshed /\ \A i \in 1..Len(lookups) : lookups[i].refreshed

\* the Registry objects that have been the store's: the one it was
\* constructed with and those a refresh has assigned
Published(id) ==
    \/ id = 0
    \/ id = store_registry
    \/ \E i \in 1..Len(lookups) : lookups[i].registry = id

\* C23: refresh_registry refreshes a Registry object of its own and only
\* then makes it the store's: the store's Registry is at all times a fully
\* refreshed one, every lookup of a concurrent reader was answered by a
\* fully refreshed Registry, a Registry is not changed once it is the
\* store's, the store's reference changes only in the assignment that ends
\* a successful refresh, and a refresh whose fetch fails leaves the store's
\* reference as it was.
C23_RegistryPublishedAtomically ==
    /\ []RegistryAlwaysRefreshed
    /\ [][\A id \in RegistryIds : Published(id) => registries'[id] = registries[id]]_vars
    /\ [][store_registry' # store_registry =>
              \E t \in Threads :
                  /\ refresh_pc[t] = "fetched"
                  /\ refresh_pc'[t] = "done"
                  /\ store_registry' = local_registry[t]
                  /\ registries[local_registry[t]].refreshed]_vars
    /\ [][\A t \in Threads :
              (refresh_pc[t] = "fetching" /\ refresh_pc'[t] = "failed") =>
                  store_registry' = store_registry]_vars

\* one thread's fetch has failed while the other thread's refresh replaced
\* the store's registry by a newer one, and a reader looked the registry up
\* before and after
C23_Witness ==
    /\ \E t \in Threads : refresh_pc[t] = "failed" /\ refresh_err[t] = "RegistryFetchError"
    /\ \E t \in Threads : refresh_pc[t] = "done" /\ store_registry = local_registry[t]
    /\ registries[store_registry].version > 0
    /\ \E i, j \in 1..Len(lookups) : lookups[i].registry # lookups[j].registry

\* C27: within one call of get_online_features every registry lookup is
\* answered by the same Registry snapshot, also when refresh_registry
\* replaces the store's registry during the call.
C27_LookupsSeeOneSnapshot ==
    \A i, j \in 1..Len(lookups) : lookups[i].registry = lookups[j].registry
====
